---- MODULE Spec2Model ----
(***************************************************************************)
(* Run/state orchestration core of the workflow orchestrator:              *)
(*   - the state propagator   (airflow/api/common/mark_tasks.py)           *)
(*   - the mapped task expander (airflow/models/mappedoperator.py)         *)
(*   - the task instance history (airflow/models/taskinstancehistory.py)   *)
(*   - the sensor poke loop   (airflow/sensors/base.py)                    *)
(* The store is the pair of tables ti (TaskInstance) and dag_run (DagRun), *)
(* plus ti_history.  Every action is one call of one public operation.     *)
(***************************************************************************)
EXTENDS Integers, FiniteSets, Sequences, TLC

VARIABLES
    dag,         \* the primary DAG's schedule attributes (read-only input)
    ti,          \* TaskInstance table: key -> row
    dag_run,     \* DagRun table: key -> row
    ti_history,  \* TaskInstanceHistory table: set of rows
    last,        \* the call made by the last step: operation, arguments, result
    pre,         \* the tables as they were when the last call started
    expansions,  \* per run: the lengths of the expansions made so far
    session,     \* per database session: where its commit-mode set_state is
    sensor,      \* one sensor task instance: configuration, clock, loop position
    steps        \* number of calls made so far

vars ==
    <<dag, ti, dag_run, ti_history, last, pre, expansions, session, sensor, steps>>

(***************************************************************************)
(* Bounds of the model.                                                    *)
(***************************************************************************)
MaxDate == 2      \* logical timestamps 1..MaxDate carry primary runs
MaxLen == 3       \* largest length a TaskMap row records
MaxSteps == 3     \* calls per behaviour of Spec
MaxMarkSteps == 2     \* calls per behaviour of SpecMark
MaxExpandSteps == 4   \* calls per behaviour of SpecExpand
MaxReexpandSteps == 3 \* calls per behaviour of SpecReexpand
MaxAtomicSteps == 7   \* steps per behaviour of SpecAtomic
MaxSparseSteps == 2   \* calls per behaviour of SpecSparse
MaxRunsSteps == 2     \* calls per behaviour of SpecRuns
MaxLockSteps == 5     \* steps per behaviour of SpecLock
MaxValidateSteps == 2 \* calls per behaviour of SpecValidate
MaxDatesSteps == 2      \* calls per behaviour of SpecDates
MaxPokeCount == 4     \* pokes per execution of the sensor
MaxExecutions == 3    \* executions of the sensor per behaviour
MaxHistorySteps == 5  \* steps per behaviour of SpecHistory
NumSessions == 2      \* concurrent database sessions

Dates == 1..MaxDate
AllDates == 0..MaxDate

(***************************************************************************)
(* Values.                                                                 *)
(***************************************************************************)
None == "None"
T0 == "t0"            \* a timestamp before the first call
UtcNow == "utcnow"    \* timezone.utcnow() during a call

TaskInstanceState ==
    {"scheduled", "queued", "running", "up_for_retry", "up_for_reschedule",
     "success", "failed", "skipped", "removed"}
DagRunState == {"queued", "running", "success", "failed"}
State_unfinished ==
    {"scheduled", "queued", "running", "up_for_retry", "up_for_reschedule"}
State_finished == {"success", "failed", "skipped"}
State_running == {"running"}

PlaceholderIndex == -1

(***************************************************************************)
(* The task graphs.  Primary DAG "dag": A -> B -> C, where B is a mapped   *)
(* operator expanded over A's output and C is a SubDagOperator whose       *)
(* nested graph "dag.C" holds the single task X.                           *)
(***************************************************************************)
dag_id == "dag"
MappedTask == "B"
UpstreamTask == "A"
Edges == {<<"A", "B">>, <<"B", "C">>}

tasks_of(d) ==
    IF d = "dag" THEN {"A", "B", "C"}
    ELSE IF d = "dag.C" THEN {"X"}
    ELSE {}

has_task(d, task_id) == task_id \in tasks_of(d)

\* current_task.subdag for a SubDagOperator, None for any other task
subdag(d, task_id) == IF d = "dag" /\ task_id = "C" THEN "dag.C" ELSE None

is_subdag_operator(d, task_id) == d = "dag" /\ task_id = "C"

RECURSIVE Reach(_, _, _)
Reach(frontier, seen, upstream) ==
    LET from == IF upstream THEN 2 ELSE 1
        to == IF upstream THEN 1 ELSE 2
        next == {e[to] : e \in {x \in Edges : x[from] \in frontier}} \ seen
    IN  IF next = {} THEN seen ELSE Reach(next, seen \cup next, upstream)

get_flat_relatives(task_id, upstream) == Reach({task_id}, {}, upstream)

(***************************************************************************)
(* Rows and keys.                                                          *)
(***************************************************************************)
TIKey(d, t, date, idx) ==
    [dag_id |-> d, task_id |-> t, execution_date |-> date, map_index |-> idx]
RunKey(d, date) == [dag_id |-> d, execution_date |-> date]

TaskInstance(state) == [state |-> state, end_date |-> None, try_number |-> 0]

DataInterval(start) == <<start, start + 1>>
logical_date(info) == info[1]

Max(S) == CHOOSE x \in S : \A y \in S : y <= x

\* the sequence of the elements of a finite set of integers, ascending
RECURSIVE SortedSeq(_)
SortedSeq(S) ==
    IF S = {} THEN <<>>
    ELSE LET m == Max(S) IN Append(SortedSeq(S \ {m}), m)

Range(seq) == {seq[i] : i \in 1..Len(seq)}

(***************************************************************************)
(* DagRun.verify_integrity: every task of the run's DAG that has no task   *)
(* instance in the run gets one at the placeholder index with null state.  *)
(***************************************************************************)
verify_integrity(tis, d, date) ==
    LET missing == {t \in tasks_of(d) :
                      ~\E k \in DOMAIN tis :
                          k.dag_id = d /\ k.task_id = t /\ k.execution_date = date}
    IN  tis @@ [k \in {TIKey(d, t, date, PlaceholderIndex) : t \in missing}
                  |-> TaskInstance(None)]

\* DAG.create_dagrun: the new run row, and its task instances
create_dagrun(st, key, data_interval, state, run_type) ==
    [ti |-> verify_integrity(st.ti, key.dag_id, key.execution_date),
     dag_run |-> st.dag_run @@
        (key :> [state |-> state, data_interval |-> data_interval,
                 run_type |-> run_type, start_date |-> UtcNow,
                 end_date |-> None])]

(***************************************************************************)
(* _create_dagruns                                                         *)
(***************************************************************************)
RECURSIVE CreateLoop(_, _, _, _, _, _, _, _)
CreateLoop(st, d, infos, i, state, run_type, known, runs) ==
    IF i > Len(infos) THEN [st |-> st, raised |-> FALSE, dag_runs |-> runs]
    ELSE IF infos[i] \in known
         THEN CreateLoop(st, d, infos, i + 1, state, run_type, known, runs)
    ELSE LET key == RunKey(d, logical_date(infos[i])) IN
         IF key \in DOMAIN st.dag_run
         THEN \* the store's uniqueness constraint on (dag_id, execution_date)
              [st |-> st, raised |-> TRUE, dag_runs |-> runs]
         ELSE CreateLoop(create_dagrun(st, key, infos[i], state, run_type),
                         d, infos, i + 1, state, run_type,
                         known \cup {infos[i]}, runs \cup {key})

\* variant: the existing runs are not looked up
_create_dagruns_without_find(st, d, infos, state, run_type) ==
    CreateLoop(st, d, infos, 1, state, run_type, {}, {})

_create_dagruns(st, d, infos, state, run_type) ==
    LET found == {r \in DOMAIN st.dag_run :
                    /\ r.dag_id = d
                    /\ r.execution_date \in {logical_date(x) : x \in Range(infos)}}
        known == {st.dag_run[r].data_interval : r \in found}
        \* one run per data interval: the dict is keyed by data interval
        kept == {CHOOSE r \in found : st.dag_run[r].data_interval = iv : iv \in known}
    IN  CreateLoop(st, d, infos, 1, state, run_type, known, kept)

(***************************************************************************)
(* _verify_dagruns                                                         *)
(***************************************************************************)
\* variant: the run state is written whether or not commit is set
RECURSIVE _verify_dagruns_ignoring_commit(_, _, _, _)
_verify_dagruns_ignoring_commit(st, dag_runs, commit, state) ==
    IF dag_runs = {} THEN st
    ELSE LET r == CHOOSE x \in dag_runs : TRUE
             tis == verify_integrity(st.ti, r.dag_id, r.execution_date)
             runs == [st.dag_run EXCEPT ![r].state = state]
         IN  _verify_dagruns_ignoring_commit([ti |-> tis, dag_run |-> runs],
                                             dag_runs \ {r}, commit, state)

RECURSIVE _verify_dagruns(_, _, _, _)
_verify_dagruns(st, dag_runs, commit, state) ==
    IF dag_runs = {} THEN st
    ELSE LET r == CHOOSE x \in dag_runs : TRUE
             tis == verify_integrity(st.ti, r.dag_id, r.execution_date)
             runs == IF commit
                     THEN [st.dag_run EXCEPT ![r].state = state]
                     ELSE st.dag_run
         IN  _verify_dagruns([ti |-> tis, dag_run |-> runs],
                             dag_runs \ {r}, commit, state)

(***************************************************************************)
(* _get_subdag_runs: walk the stack of DAGs; every task id of the closure  *)
(* that names a SubDagOperator with a nested graph in the current DAG gets *)
(* its nested runs created and verified, and the nested graph is pushed.   *)
(***************************************************************************)
RECURSIVE SubdagTasks(_, _, _, _, _, _, _)
SubdagTasks(acc, current_dag, todo, state, commit, confirmed_infos, dags) ==
    IF todo = {} \/ acc.raised THEN [acc |-> acc, dags |-> dags]
    ELSE LET task_id == CHOOSE t \in todo : TRUE
             sub == subdag(current_dag, task_id)
             made == _create_dagruns(acc.st, sub, confirmed_infos,
                                     "running", "backfill")
             next == IF made.raised
                     THEN [st |-> made.st, raised |-> TRUE,
                           sub_dag_ids |-> acc.sub_dag_ids]
                     ELSE [st |-> _verify_dagruns(made.st, made.dag_runs,
                                                  commit, state),
                           raised |-> FALSE,
                           sub_dag_ids |-> acc.sub_dag_ids \cup {sub}]
         IN  SubdagTasks(next, current_dag, todo \ {task_id}, state, commit,
                         confirmed_infos,
                         IF made.raised THEN dags ELSE Append(dags, sub))

RECURSIVE SubdagWalk(_, _, _, _, _, _)
SubdagWalk(acc, dags, state, task_ids, commit, confirmed_infos) ==
    IF dags = <<>> \/ acc.raised THEN acc
    ELSE LET current_dag == dags[Len(dags)]
             rest == SubSeq(dags, 1, Len(dags) - 1)
             todo == {t \in task_ids :
                        /\ has_task(current_dag, t)
                        /\ is_subdag_operator(current_dag, t)
                        /\ subdag(current_dag, t) /= None}
             done == SubdagTasks(acc, current_dag, todo, state, commit,
                                 confirmed_infos, rest)
         IN  SubdagWalk(done.acc, done.dags, state, task_ids, commit,
                        confirmed_infos)

_get_subdag_runs(st, state, task_ids, commit, confirmed_infos) ==
    SubdagWalk([st |-> st, raised |-> FALSE, sub_dag_ids |-> {}],
               <<dag_id>>, state, task_ids, commit, confirmed_infos)

(***************************************************************************)
(* _find_task_relatives                                                    *)
(***************************************************************************)
\* variant: the upstream flag walks the downstream relatives again
_find_task_relatives_one_direction(tasks, downstream, upstream) ==
    tasks
    \cup (IF downstream
          THEN UNION {get_flat_relatives(t, FALSE) : t \in tasks} ELSE {})
    \cup (IF upstream
          THEN UNION {get_flat_relatives(t, FALSE) : t \in tasks} ELSE {})

_find_task_relatives(tasks, downstream, upstream) ==
    tasks
    \cup (IF downstream
          THEN UNION {get_flat_relatives(t, FALSE) : t \in tasks} ELSE {})
    \cup (IF upstream
          THEN UNION {get_flat_relatives(t, TRUE) : t \in tasks} ELSE {})

(***************************************************************************)
(* _get_execution_dates.  Optional timestamps are sets of at most one      *)
(* element; the periodic timetable has a boundary at every integer.        *)
(***************************************************************************)
get_latest_execution_date(runs) ==
    LET ds == {r.execution_date : r \in {x \in DOMAIN runs : x.dag_id = dag_id}}
    IN  IF ds = {} THEN {} ELSE {Max(ds)}

\* variant: the DAG's own start_date is consulted before default_args
_get_execution_dates_dag_start_first(conf, runs, execution_date, future, past) ==
    LET latest_execution_date == get_latest_execution_date(runs)
        end_date == IF future THEN Max(latest_execution_date) ELSE execution_date
        dag_start == IF conf.start_date /= {}
                     THEN Max(conf.start_date)
                     ELSE IF conf.default_args_start_date /= {}
                     THEN Max(conf.default_args_start_date)
                     ELSE execution_date
        start_date == IF ~past THEN execution_date ELSE dag_start
    IN  IF latest_execution_date = {}
        THEN [raised |-> TRUE, dates |-> {}]
        ELSE [raised |-> FALSE,
              dates |->
                IF conf.timetable = "never"
                THEN {r.execution_date :
                        r \in {x \in DOMAIN runs :
                                 /\ x.dag_id = dag_id
                                 /\ start_date <= x.execution_date
                                 /\ x.execution_date <= end_date}}
                ELSE IF conf.timetable = "once"
                THEN {start_date}
                ELSE {d \in AllDates : start_date <= d /\ d <= end_date}]

_get_execution_dates(conf, runs, execution_date, future, past) ==
    LET latest_execution_date == get_latest_execution_date(runs)
        end_date == IF future THEN Max(latest_execution_date) ELSE execution_date
        dag_start == IF conf.default_args_start_date /= {}
                     THEN Max(conf.default_args_start_date)
                     ELSE IF conf.start_date /= {}
                     THEN Max(conf.start_date)
                     ELSE execution_date
        start_date == IF ~past THEN execution_date ELSE dag_start
    IN  IF latest_execution_date = {}
        THEN [raised |-> TRUE, dates |-> {}]
        ELSE [raised |-> FALSE,
              dates |->
                IF conf.timetable = "never"
                THEN {r.execution_date :
                        r \in {x \in DOMAIN runs :
                                 /\ x.dag_id = dag_id
                                 /\ start_date <= x.execution_date
                                 /\ x.execution_date <= end_date}}
                ELSE IF conf.timetable = "once"
                THEN {start_date}
                ELSE {d \in AllDates : start_date <= d /\ d <= end_date}]

(***************************************************************************)
(* _verify_dag_run_integrity: the runs found at the dates, in ascending    *)
(* order of their logical timestamp; each is verified and contributes the  *)
(* interval built from its data interval (whose logical date is its start) *)
(***************************************************************************)
RECURSIVE VerifyRuns(_, _, _)
VerifyRuns(tis, dates_seq, i) ==
    IF i > Len(dates_seq) THEN tis
    ELSE VerifyRuns(verify_integrity(tis, dag_id, dates_seq[i]), dates_seq, i + 1)

_verify_dag_run_integrity(st, dates) ==
    LET found == SortedSeq({d \in dates : RunKey(dag_id, d) \in DOMAIN st.dag_run})
    IN  [st |-> [ti |-> VerifyRuns(st.ti, found, 1), dag_run |-> st.dag_run],
         confirmed_infos |->
            [i \in 1..Len(found) |-> st.dag_run[RunKey(dag_id, found[i])].data_interval]]

(***************************************************************************)
(* The two candidate queries.  A SQL comparison with NULL is not true, so  *)
(* the null state is matched by its own disjunct; a null target makes the  *)
(* second disjunct IS NOT NULL.                                            *)
(***************************************************************************)
StateDiffers(row, state) == row.state = None \/ row.state /= state

_get_all_dag_task_query(st, state, task_ids, confirmed_dates) ==
    {k \in DOMAIN st.ti :
        /\ k.dag_id = dag_id
        /\ RunKey(dag_id, k.execution_date) \in DOMAIN st.dag_run
        /\ k.execution_date \in confirmed_dates
        /\ k.task_id \in task_ids
        /\ StateDiffers(st.ti[k], state)}

\* variant: the nested query keeps the task-id filter of the primary one
_all_subdag_tasks_query_of_task_ids(st, sub_dag_run_ids, state, confirmed_dates) ==
    {k \in DOMAIN st.ti :
        /\ k.dag_id \in sub_dag_run_ids
        /\ k.execution_date \in confirmed_dates
        /\ k.task_id \in tasks_of(dag_id)
        /\ StateDiffers(st.ti[k], state)}

_all_subdag_tasks_query(st, sub_dag_run_ids, state, confirmed_dates) ==
    {k \in DOMAIN st.ti :
        /\ k.dag_id \in sub_dag_run_ids
        /\ k.execution_date \in confirmed_dates
        /\ StateDiffers(st.ti[k], state)}

(***************************************************************************)
(* set_state.  a: the arguments; the result is the store after the call,   *)
(* the returned task instances and whether the call raised.                *)
(***************************************************************************)
\* variant: a task instance with null state is passed over
AlterUnlessNull(row, state) ==
    IF row.state = None THEN row
    ELSE [row EXCEPT !.state = state,
                     !.end_date = IF state \in State_finished THEN UtcNow ELSE @]

Alter(row, state) ==
    [row EXCEPT !.state = state,
                !.end_date = IF state \in State_finished THEN UtcNow ELSE @]

\* the outcome of a call that leaves the store as it found it
Unaltered(st, raised) ==
    [ti |-> st.ti, dag_run |-> st.dag_run, ret |-> {}, raised |-> raised]

\* the commit loop over tis_altered, and the value returned
AlterAll(st, a, tis_altered) ==
    [ti |-> IF a.commit
            THEN [k \in DOMAIN st.ti |->
                    IF k \in tis_altered THEN Alter(st.ti[k], a.state)
                    ELSE st.ti[k]]
            ELSE st.ti,
     dag_run |-> st.dag_run,
     ret |-> tis_altered,
     raised |-> FALSE]

\* the two candidate queries, once the nested runs are there
QueryAffected(a, task_ids, confirmed_dates, subs) ==
    IF subs.raised THEN Unaltered(subs.st, TRUE)
    ELSE AlterAll(subs.st, a,
             _get_all_dag_task_query(subs.st, a.state, task_ids, confirmed_dates)
             \cup (IF subs.sub_dag_ids /= {}
                   THEN _all_subdag_tasks_query(subs.st, subs.sub_dag_ids,
                                                a.state, confirmed_dates)
                   ELSE {}))

\* confirmed_dates and sub_dag_run_ids from the verified runs
OnConfirmed(a, task_ids, verified) ==
    QueryAffected(a, task_ids,
        {logical_date(x) : x \in Range(verified.confirmed_infos)},
        _get_subdag_runs(verified.st, a.state, task_ids, a.commit,
                         verified.confirmed_infos))

\* task_ids and confirmed_infos from the dates
OnDates(st, a, got) ==
    IF got.raised THEN Unaltered(st, TRUE)
    ELSE OnConfirmed(a, _find_task_relatives(a.tasks, a.downstream, a.upstream),
                     _verify_dag_run_integrity(st, got.dates))

\* variant: the anchor timestamp and the tasks' DAGs are not validated
set_state_unvalidated(conf, st, a) ==
    IF a.tasks = {} THEN Unaltered(st, FALSE)
    ELSE OnDates(st, a, _get_execution_dates(conf, st.dag_run, a.execution_date,
                                             a.future, a.past))

set_state(conf, st, a) ==
    IF a.tasks = {} THEN Unaltered(st, FALSE)
    ELSE IF ~a.localized THEN Unaltered(st, TRUE)
    ELSE IF a.task_dags /= "one" THEN Unaltered(st, TRUE)
    ELSE OnDates(st, a, _get_execution_dates(conf, st.dag_run, a.execution_date,
                                             a.future, a.past))

(***************************************************************************)
(* _set_dag_run_state: the run is fetched with one(), which raises when    *)
(* no run exists at the timestamp.                                         *)
(***************************************************************************)
\* variant: the end date is stamped for the running state too
_set_dag_run_state_stamping_end(runs, execution_date, state) ==
    LET key == RunKey(dag_id, execution_date) IN
    IF key \notin DOMAIN runs THEN [raised |-> TRUE, dag_run |-> runs]
    ELSE [raised |-> FALSE,
          dag_run |->
            [runs EXCEPT ![key] = [@ EXCEPT !.state = state, !.end_date = UtcNow]]]

_set_dag_run_state(runs, execution_date, state) ==
    LET key == RunKey(dag_id, execution_date) IN
    IF key \notin DOMAIN runs THEN [raised |-> TRUE, dag_run |-> runs]
    ELSE [raised |-> FALSE,
          dag_run |->
            [runs EXCEPT ![key] =
                IF state = "running"
                THEN [@ EXCEPT !.state = state, !.start_date = UtcNow,
                               !.end_date = None]
                ELSE [@ EXCEPT !.state = state, !.end_date = UtcNow]]]

\* the arguments the three wrappers hand to set_state
WrapperArgs(w, tasks, state) ==
    [tasks |-> tasks, execution_date |-> Max(w.execution_date),
     localized |-> w.localized, task_dags |-> "one",
     upstream |-> FALSE, downstream |-> FALSE, future |-> FALSE,
     past |-> FALSE, state |-> state, commit |-> w.commit]

\* A wrapper runs in one session: when set_state raises, the run row written
\* by _set_dag_run_state is rolled back with it.
RolledBack(st, key, res) ==
    IF res.raised /\ key \in DOMAIN st.dag_run
    THEN [res EXCEPT !.dag_run = [@ EXCEPT ![key] = st.dag_run[key]]]
    ELSE res

MarkedThenSet(conf, st, w, tasks, state, marked) ==
    IF w.commit /\ marked.raised THEN Unaltered(st, TRUE)
    ELSE RolledBack(st, RunKey(dag_id, Max(w.execution_date)),
            set_state(conf,
                      [ti |-> st.ti,
                       dag_run |-> IF w.commit THEN marked.dag_run ELSE st.dag_run],
                      WrapperArgs(w, tasks, state)))

WrapperResult(conf, st, w, tasks, state) ==
    IF ~w.dag_given \/ w.execution_date = {} THEN Unaltered(st, FALSE)
    ELSE MarkedThenSet(conf, st, w, tasks, state,
            _set_dag_run_state(st.dag_run, Max(w.execution_date), state))

set_dag_run_state_to_success(conf, st, w) ==
    WrapperResult(conf, st, w, tasks_of(dag_id), "success")

set_dag_run_state_to_failed(conf, st, w) ==
    LET tis == {k \in DOMAIN st.ti :
                    /\ k.dag_id = dag_id
                    /\ w.execution_date /= {}
                    /\ k.execution_date = Max(w.execution_date)
                    /\ k.task_id \in tasks_of(dag_id)
                    /\ st.ti[k].state \in State_running}
        task_ids_of_running_tis == {k.task_id : k \in tis}
        tasks == {t \in tasks_of(dag_id) : t \in task_ids_of_running_tis}
    IN  WrapperResult(conf, st, w, tasks, "failed")

MarkedRunning(st, w, marked) ==
    IF marked.raised THEN Unaltered(st, TRUE)
    ELSE [ti |-> st.ti, dag_run |-> marked.dag_run, ret |-> {},
          raised |-> FALSE]

set_dag_run_state_to_running(conf, st, w) ==
    IF ~w.dag_given \/ w.execution_date = {} THEN Unaltered(st, FALSE)
    ELSE IF ~w.commit THEN Unaltered(st, FALSE)
    ELSE MarkedRunning(st, w,
            _set_dag_run_state(st.dag_run, Max(w.execution_date), "running"))

(***************************************************************************)
(* MappedOperator.expand_mapped_task for the mapped task of the run at     *)
(* date; task_map_info_length is the scalar read from TaskMap: the empty   *)
(* set when no row exists.  The history rows follow a re-keyed task        *)
(* instance (foreign key with ON UPDATE CASCADE).                          *)
(***************************************************************************)
MappedKey(date, idx) == TIKey(dag_id, MappedTask, date, idx)

MappedIndexes(tis, date) ==
    {k.map_index : k \in {x \in DOMAIN tis :
                            /\ x.dag_id = dag_id
                            /\ x.task_id = MappedTask
                            /\ x.execution_date = date}}

\* variant: a removed row below the length is made schedulable again
MarkRemovedOrRestored(tis, date, length) ==
    [k \in DOMAIN tis |->
        IF /\ k.dag_id = dag_id
           /\ k.task_id = MappedTask
           /\ k.execution_date = date
        THEN IF k.map_index >= length
             THEN [tis[k] EXCEPT !.state = "removed"]
             ELSE IF tis[k].state = "removed"
             THEN [tis[k] EXCEPT !.state = None]
             ELSE tis[k]
        ELSE tis[k]]

\* variant: the comparison is strict
MarkRemovedAbove(tis, date, length) ==
    [k \in DOMAIN tis |->
        IF /\ k.dag_id = dag_id
           /\ k.task_id = MappedTask
           /\ k.execution_date = date
           /\ k.map_index > length
        THEN [tis[k] EXCEPT !.state = "removed"]
        ELSE tis[k]]

\* the UPDATE ... SET state = removed WHERE map_index >= length
MarkRemoved(tis, date, length) ==
    [k \in DOMAIN tis |->
        IF /\ k.dag_id = dag_id
           /\ k.task_id = MappedTask
           /\ k.execution_date = date
           /\ k.map_index >= length
        THEN [tis[k] EXCEPT !.state = "removed"]
        ELSE tis[k]]

\* variant: the new task instances are built without the state argument
MergeNewWithoutState(tis, date, indexes, state) ==
    [k \in DOMAIN tis \cup {MappedKey(date, i) : i \in indexes} |->
        IF k \in {MappedKey(date, i) : i \in indexes}
        THEN TaskInstance(None)
        ELSE tis[k]]

\* session.merge of new task instances at the indexes, all with one state
MergeNew(tis, date, indexes, state) ==
    [k \in DOMAIN tis \cup {MappedKey(date, i) : i \in indexes} |->
        IF k \in {MappedKey(date, i) : i \in indexes}
        THEN TaskInstance(state)
        ELSE tis[k]]

Rekey(tis, from, to) ==
    [k \in (DOMAIN tis \ {from}) \cup {to} |->
        IF k = to THEN tis[from] ELSE tis[k]]

CascadeHistory(hist, from, to) ==
    {IF /\ h.dag_id = from.dag_id
        /\ h.task_id = from.task_id
        /\ h.execution_date = from.execution_date
        /\ h.map_index = from.map_index
     THEN [h EXCEPT !.map_index = to.map_index]
     ELSE h : h \in hist}

\* variant: the zero-length placeholder is marked removed
SkipUnmappedAsRemoved(tis, placeholder) ==
    [tis EXCEPT ![placeholder].state = "removed"]

\* unmapped_ti.state = TaskInstanceState.SKIPPED
SkipUnmapped(tis, placeholder) ==
    [tis EXCEPT ![placeholder].state = "skipped"]

\* variant: every index below the length is created again
MissingIndexesFromZero(current_max_mapping, length) ==
    0..(length - 1)

\* range(current_max_mapping + 1, task_map_info_length)
MissingIndexes(current_max_mapping, length) ==
    (current_max_mapping + 1)..(length - 1)

\* variant: a missing TaskMap row reads as length zero
scalar_or_zero(rows) == IF rows = {} THEN {0} ELSE rows

\* session.query(TaskMap.length)...scalar(): None when no row matches
scalar(rows) == rows

expand_mapped_task(st, date, task_map_info_length) ==
    LET unchanged == [ti |-> st.ti, ti_history |-> st.ti_history]
        length == Max(scalar(task_map_info_length))
        placeholder == MappedKey(date, PlaceholderIndex)
        unmapped_ti ==
            /\ placeholder \in DOMAIN st.ti
            /\ \/ st.ti[placeholder].state \in State_unfinished
               \/ st.ti[placeholder].state = None
        first == MappedKey(date, 0)
        existing == MappedIndexes(st.ti, date)
        current_max_mapping == Max(existing)
    IN  IF scalar(task_map_info_length) = {}
        THEN unchanged @@ [ret |-> <<>>, raised |-> TRUE]
        ELSE IF unmapped_ti
        THEN IF length < 1
             THEN [ti |-> SkipUnmapped(st.ti, placeholder),
                   ti_history |-> st.ti_history,
                   ret |-> <<>>, raised |-> FALSE]
             ELSE IF first \in DOMAIN st.ti
             THEN \* primary key (dag_id, task_id, run_id, map_index)
                  unchanged @@ [ret |-> <<>>, raised |-> TRUE]
             ELSE LET state == st.ti[placeholder].state
                      indexes_to_map == 1..(length - 1)
                      rekeyed == Rekey(st.ti, placeholder, first)
                      merged == MergeNew(rekeyed, date, indexes_to_map, state)
                  IN  [ti |-> MarkRemoved(merged, date, length),
                       ti_history |->
                          CascadeHistory(st.ti_history, placeholder, first),
                       ret |-> <<first>> \o
                               [i \in 1..(length - 1) |-> MappedKey(date, i)],
                       raised |-> FALSE]
        ELSE IF existing = {}
        THEN \* max() over no rows is None, and None + 1 raises
             unchanged @@ [ret |-> <<>>, raised |-> TRUE]
        ELSE LET indexes_to_map == MissingIndexes(current_max_mapping, length)
                 merged == MergeNew(st.ti, date, indexes_to_map, None)
             IN  [ti |-> MarkRemoved(merged, date, length),
                  ti_history |-> st.ti_history,
                  ret |-> [i \in 1..Cardinality(indexes_to_map) |->
                              MappedKey(date, SortedSeq(indexes_to_map)[i])],
                  raised |-> FALSE]

(***************************************************************************)
(* expand_mapped_task statement by statement.  The writes go to the view   *)
(* of the caller's session; the function flushes and never commits, so the *)
(* store other sessions read changes when the caller commits, and not at   *)
(* all when the call raises or the process stops before that.              *)
(***************************************************************************)
HasUnmapped(st, date) ==
    /\ MappedKey(date, PlaceholderIndex) \in DOMAIN st.ti
    /\ \/ st.ti[MappedKey(date, PlaceholderIndex)].state \in State_unfinished
       \/ st.ti[MappedKey(date, PlaceholderIndex)].state = None

View(st) == [ti |-> st.ti, ti_history |-> st.ti_history]

\* up to indexes_to_map: the reads, and the writes on the placeholder
Opened(st, date, task_map_info_length) ==
    IF scalar(task_map_info_length) = {}
    THEN [raised |-> TRUE]
    ELSE IF HasUnmapped(st, date)
    THEN IF Max(scalar(task_map_info_length)) < 1
         THEN [raised |-> FALSE, pc |-> "flushed", state |-> None,
               indexes_to_map |-> {},
               view |-> [ti |-> SkipUnmapped(st.ti, MappedKey(date, PlaceholderIndex)),
                         ti_history |-> st.ti_history]]
         ELSE IF MappedKey(date, 0) \in DOMAIN st.ti
         THEN \* primary key (dag_id, task_id, run_id, map_index)
              [raised |-> TRUE]
         ELSE [raised |-> FALSE, pc |-> "expanding",
               state |-> st.ti[MappedKey(date, PlaceholderIndex)].state,
               indexes_to_map |-> 1..(Max(scalar(task_map_info_length)) - 1),
               view |-> [ti |-> Rekey(st.ti, MappedKey(date, PlaceholderIndex),
                                      MappedKey(date, 0)),
                         ti_history |->
                             CascadeHistory(st.ti_history,
                                            MappedKey(date, PlaceholderIndex),
                                            MappedKey(date, 0))]]
    ELSE IF MappedIndexes(st.ti, date) = {}
    THEN \* max() over no rows is None, and None + 1 raises
         [raised |-> TRUE]
    ELSE [raised |-> FALSE, pc |-> "expanding", state |-> None,
          indexes_to_map |-> MissingIndexes(Max(MappedIndexes(st.ti, date)),
                                            Max(scalar(task_map_info_length))),
          view |-> View(st)]

\* the next index of the for loop
NextIndex(indexes) == CHOOSE i \in indexes : \A j \in indexes : i <= j

\* one turn of the for loop: session.merge(ti)
Merged(view, date, index, state) ==
    [view EXCEPT !.ti = MergeNew(@, date, {index}, state)]

\* the UPDATE of the rows at or above the length
Updated(view, date, length) ==
    [view EXCEPT !.ti = MarkRemoved(@, date, length)]

\* variant: every flush is committed at once
flush_committing(st, view) == view

\* session.flush(): the statements are sent inside the open transaction
flush(st, view) == View(st)

(***************************************************************************)
(* TaskInstanceHistory.record_ti                                           *)
(***************************************************************************)
TaskInstanceHistory(key, row, state) ==
    [dag_id |-> key.dag_id, task_id |-> key.task_id,
     execution_date |-> key.execution_date, map_index |-> key.map_index,
     try_number |-> row.try_number, state |-> state, end_date |-> row.end_date]

\* session.add(ti_history): the row gets the next value of the id column
session_add(hist, h) ==
    hist \cup {[id |-> Cardinality(hist) + 1,
                dag_id |-> h.dag_id, task_id |-> h.task_id,
                execution_date |-> h.execution_date, map_index |-> h.map_index,
                try_number |-> h.try_number, state |-> h.state,
                end_date |-> h.end_date]}

\* the history rows of a task instance's try
HistoryOf(hist, key, try_number) ==
    {h \in hist : /\ h.dag_id = key.dag_id
                  /\ h.task_id = key.task_id
                  /\ h.execution_date = key.execution_date
                  /\ h.map_index = key.map_index
                  /\ h.try_number = try_number}

record_ti(st, key) ==
    LET row == st.ti[key]
        exists_q == Cardinality({h \in st.ti_history :
                        /\ h.dag_id = key.dag_id
                        /\ h.task_id = key.task_id
                        /\ h.execution_date = key.execution_date
                        /\ h.map_index = key.map_index
                        /\ h.try_number = row.try_number})
        stamped == IF row.state \notin State_finished
                   THEN [row EXCEPT !.end_date = UtcNow] ELSE row
        ti_history_state == IF row.state \notin State_finished
                            THEN "failed" ELSE row.state
    IN  IF exists_q > 0 THEN [ti |-> st.ti, ti_history |-> st.ti_history]
        ELSE [ti |-> [st.ti EXCEPT ![key] = stamped],
              ti_history |->
                  session_add(st.ti_history,
                              TaskInstanceHistory(key, stamped, ti_history_state))]

\* record_ti in a session of its own, in two steps other sessions can come
\* between: the count query on the task instance the caller holds, then the
\* rest, flushed when the session commits.  The flush fails, and the session
\* is rolled back, when the unique constraint task_instance_history_dtrt_uq
\* or the foreign key to task_instance does not hold.
Queried(st, key) ==
    [exists_q |-> Cardinality(HistoryOf(st.ti_history, key, st.ti[key].try_number)),
     row |-> st.ti[key]]

Stamped(row) ==
    IF row.state \notin State_finished THEN [row EXCEPT !.end_date = UtcNow]
    ELSE row

\* variant: the table has no unique constraint
record_ti_flush_unconstrained(st, key, read) ==
    IF read.exists_q > 0
    THEN [ti |-> st.ti, ti_history |-> st.ti_history, raised |-> FALSE]
    ELSE IF key \notin DOMAIN st.ti
    THEN [ti |-> st.ti, ti_history |-> st.ti_history, raised |-> TRUE]
    ELSE [ti |-> IF read.row.state \notin State_finished
                 THEN [st.ti EXCEPT ![key].end_date = UtcNow] ELSE st.ti,
          ti_history |->
              session_add(st.ti_history,
                          TaskInstanceHistory(
                              key, Stamped(read.row),
                              IF read.row.state \notin State_finished
                              THEN "failed" ELSE read.row.state)),
          raised |-> FALSE]

record_ti_flush(st, key, read) ==
    IF read.exists_q > 0
    THEN [ti |-> st.ti, ti_history |-> st.ti_history, raised |-> FALSE]
    ELSE IF \/ key \notin DOMAIN st.ti
            \/ HistoryOf(st.ti_history, key, read.row.try_number) /= {}
    THEN [ti |-> st.ti, ti_history |-> st.ti_history, raised |-> TRUE]
    ELSE [ti |-> IF read.row.state \notin State_finished
                 THEN [st.ti EXCEPT ![key].end_date = UtcNow] ELSE st.ti,
          ti_history |->
              session_add(st.ti_history,
                          TaskInstanceHistory(
                              key, Stamped(read.row),
                              IF read.row.state \notin State_finished
                              THEN "failed" ELSE read.row.state)),
          raised |-> FALSE]

(***************************************************************************)
(* Initial stores.  A primary run exists or not at each date; an existing  *)
(* run is a scheduled one, whose data interval starts at its logical       *)
(* timestamp, or a manual one, whose data interval starts one period       *)
(* earlier.  A profile gives, for each task of the primary DAG, the states *)
(* of its task instances by map index (none for a task added to the DAG    *)
(* after the run was created); no nested run exists yet.                   *)
(***************************************************************************)
InitRow(state) ==
    [state |-> state,
     end_date |-> IF state \in State_finished THEN T0 ELSE None,
     try_number |-> 0]

InitRun(date, kind) ==
    [state |-> "running",
     data_interval |-> IF kind = "scheduled" THEN DataInterval(date)
                       ELSE DataInterval(date - 1),
     run_type |-> kind, start_date |-> T0, end_date |-> None]

InitStore(kinds, profiles) ==
    LET present == {d \in Dates : kinds[d] /= "absent"}
        keys == UNION {{TIKey(dag_id, t, d, i) : i \in DOMAIN profiles[d][t]} :
                          t \in tasks_of(dag_id), d \in present}
    IN  [ti |-> [k \in keys |->
                    InitRow(profiles[k.execution_date][k.task_id][k.map_index])],
         dag_run |-> [r \in {RunKey(dag_id, d) : d \in present}
                        |-> InitRun(r.execution_date, kinds[r.execution_date])]]

Unmapped(state) == PlaceholderIndex :> state
Profile(a, b, c) == [A |-> a, B |-> b, C |-> c]
Absent == <<>>

PeriodicDag ==
    [default_args_start_date |-> {}, start_date |-> {1}, timetable |-> "periodic"]

\* a session holds no row lock outside a commit-mode set_state
Sessions == 1..NumSessions
NoTransaction ==
    [pc |-> "idle", a |-> <<>>, tis_altered |-> {}, locks |-> {}, read |-> <<>>]

\* no sensor is running
NoSensor == [pc |-> "absent"]

InitWith(confs, kindsets, profilesets) ==
    /\ dag \in confs
    /\ \E kinds \in kindsets, profiles \in profilesets :
          LET st == InitStore(kinds, profiles) IN
          /\ ti = st.ti
          /\ dag_run = st.dag_run
          /\ pre = [ti |-> st.ti, dag_run |-> st.dag_run, ti_history |-> {}]
    /\ ti_history = {}
    /\ last = [op |-> "init", a |-> <<>>, ret |-> {}, raised |-> FALSE]
    /\ expansions = [d \in Dates |-> <<>>]
    /\ session = [p \in Sessions |-> NoTransaction]
    /\ sensor = NoSensor
    /\ steps = 0

(***************************************************************************)
(* Actions: one call of one operation each.                                *)
(***************************************************************************)
Store == [ti |-> ti, dag_run |-> dag_run, ti_history |-> ti_history]

Logged(op, a, ret, raised) ==
    /\ steps' = steps + 1
    /\ pre' = Store
    /\ last' = [op |-> op, a |-> a, ret |-> ret, raised |-> raised]
    /\ UNCHANGED <<dag, sensor>>

Called(op, a, ret, raised) ==
    /\ Logged(op, a, ret, raised)
    /\ UNCHANGED session

SetState(a) ==
    \E r \in {set_state(dag, Store, a)} :
        /\ Called("set_state", a, r.ret, r.raised)
        /\ ti' = r.ti
        /\ dag_run' = r.dag_run
        /\ UNCHANGED <<ti_history, expansions>>

SetDagRunStateToSuccess(w) ==
    \E r \in {set_dag_run_state_to_success(dag, Store, w)} :
        /\ Called("set_dag_run_state_to_success", w, r.ret, r.raised)
        /\ ti' = r.ti
        /\ dag_run' = r.dag_run
        /\ UNCHANGED <<ti_history, expansions>>

SetDagRunStateToFailed(w) ==
    \E r \in {set_dag_run_state_to_failed(dag, Store, w)} :
        /\ Called("set_dag_run_state_to_failed", w, r.ret, r.raised)
        /\ ti' = r.ti
        /\ dag_run' = r.dag_run
        /\ UNCHANGED <<ti_history, expansions>>

SetDagRunStateToRunning(w) ==
    \E r \in {set_dag_run_state_to_running(dag, Store, w)} :
        /\ Called("set_dag_run_state_to_running", w, r.ret, r.raised)
        /\ ti' = r.ti
        /\ dag_run' = r.dag_run
        /\ UNCHANGED <<ti_history, expansions>>

\* upstream_ti is the upstream task's instance in an existing run
ExpandMappedTask(date, task_map_info_length) ==
    /\ RunKey(dag_id, date) \in DOMAIN dag_run
    /\ TIKey(dag_id, UpstreamTask, date, PlaceholderIndex) \in DOMAIN ti
    /\ \E r \in {expand_mapped_task(Store, date, task_map_info_length)} :
        /\ Called("expand_mapped_task",
                  [date |-> date, task_map_info_length |-> task_map_info_length],
                  r.ret, r.raised)
        /\ ti' = r.ti
        /\ ti_history' = r.ti_history
        /\ expansions' =
              IF r.raised THEN expansions
              ELSE [expansions EXCEPT
                      ![date] = Append(@, Max(scalar(task_map_info_length)))]
        /\ UNCHANGED dag_run

RecordTi(key) ==
    /\ key \in DOMAIN ti
    /\ \E r \in {record_ti(Store, key)} :
        /\ Called("record_ti", [key |-> key], {}, FALSE)
        /\ ti' = r.ti
        /\ ti_history' = r.ti_history
        /\ UNCHANGED <<dag_run, expansions>>

\* _create_dagruns as _get_subdag_runs calls it: state running, backfill
CreateDagruns(d, infos) ==
    \E r \in {_create_dagruns(Store, d, infos, "running", "backfill")} :
        /\ Called("_create_dagruns", [dag_id |-> d, infos |-> infos],
                  r.dag_runs, r.raised)
        /\ ti' = r.st.ti
        /\ dag_run' = r.st.dag_run
        /\ UNCHANGED <<ti_history, expansions>>

(***************************************************************************)
(* set_state with commit=True in two steps of one database session: the    *)
(* candidate queries with with_for_update(), which lock the rows they      *)
(* return until the session's transaction ends, then the loop that writes  *)
(* the state and the end of the transaction.  A statement of another       *)
(* session that selects for update or writes a locked row waits.  The      *)
(* calls are over closures without a sub-workflow container, for which     *)
(* the steps before the queries are those of a call with commit=False.     *)
(***************************************************************************)
\* variant: the rows are selected without a lock
without_for_update(rows) == {}

\* qry.with_for_update().all(): the rows returned are locked
with_for_update(rows) == rows

LockedBy(p) == IF session[p].pc = "locked" THEN session[p].locks ELSE {}
LockedByOthers(p) == UNION {LockedBy(q) : q \in Sessions \ {p}}

SelectForUpdate(p, a) ==
    /\ session[p].pc = "idle"
    /\ a.commit
    /\ \E r \in {set_state(dag, Store, [a EXCEPT !.commit = FALSE])} :
        /\ ~r.raised
        /\ r.ret \cap LockedByOthers(p) = {}
        /\ Logged("select_for_update", [p |-> p, a |-> a], r.ret, FALSE)
        /\ ti' = r.ti
        /\ dag_run' = r.dag_run
        /\ session' = [session EXCEPT ![p] =
                          [pc |-> "locked", a |-> a, tis_altered |-> r.ret,
                           locks |-> with_for_update(r.ret),
                           read |-> [k \in r.ret |-> r.ti[k]]]]
        /\ UNCHANGED <<ti_history, expansions>>

CommitAltered(p) ==
    /\ session[p].pc = "locked"
    /\ \E r \in {AlterAll(Store, session[p].a, session[p].tis_altered)} :
        /\ Logged("commit_altered", [p |-> p, a |-> session[p].a],
                  r.ret, FALSE)
        /\ ti' = r.ti
        /\ dag_run' = r.dag_run
        /\ session' = [session EXCEPT ![p].pc = "done"]
        /\ UNCHANGED <<ti_history, expansions>>

\* an expansion in a session of its own: its writes wait for locked rows
ExpandUnlocked(date, task_map_info_length) ==
    /\ \E r \in {expand_mapped_task(Store, date, task_map_info_length)} :
          \A k \in UNION {LockedBy(p) : p \in Sessions} :
              k \in DOMAIN r.ti /\ r.ti[k] = ti[k]
    /\ ExpandMappedTask(date, task_map_info_length)

(***************************************************************************)
(* Inputs.                                                                 *)
(***************************************************************************)
SetStateArgs(tasksets, flags, states) ==
    [tasks : tasksets, execution_date : Dates, localized : {TRUE},
     task_dags : {"one"}, upstream : flags, downstream : BOOLEAN,
     future : BOOLEAN, past : flags, state : states, commit : BOOLEAN]

WrapperCalls ==
    [dag_given : {TRUE}, execution_date : {{d} : d \in Dates},
     localized : {TRUE}, commit : BOOLEAN]

Lengths == {{}} \cup {{n} : n \in (-1)..MaxLen}

(***************************************************************************)
(* Spec: every operation of the core on two scheduled runs.                *)
(***************************************************************************)
Init ==
    InitWith({PeriodicDag},
             {[d \in Dates |-> "scheduled"]},
             {[d \in Dates |-> Profile(Unmapped("success"), Unmapped("running"),
                                       Unmapped("running"))],
              [d \in Dates |-> Profile(Unmapped("success"), Unmapped(None),
                                       Unmapped(None))]})

Next ==
    \/ \E a \in SetStateArgs({{"B"}}, {FALSE}, {"success"}) :
          steps < MaxSteps /\ SetState(a)
    \/ \E w \in WrapperCalls :
          steps < MaxSteps /\ SetDagRunStateToSuccess(w)
    \/ \E w \in WrapperCalls :
          steps < MaxSteps /\ SetDagRunStateToFailed(w)
    \/ \E w \in WrapperCalls :
          steps < MaxSteps /\ SetDagRunStateToRunning(w)
    \/ \E d \in Dates, n \in Lengths :
          steps < MaxSteps /\ ExpandMappedTask(d, n)
    \/ \E k \in DOMAIN ti :
          steps < MaxSteps /\ RecordTi(k)

Spec == Init /\ [][Next]_vars

(***************************************************************************)
(* SpecMark: the state propagator alone, over every argument list, on      *)
(* stores with missing, scheduled and manual runs and an expanded task.    *)
(***************************************************************************)
InitMark ==
    InitWith({PeriodicDag},
             {[d \in Dates |-> "scheduled"],
              [d \in Dates |-> IF d = 1 THEN "scheduled" ELSE "absent"],
              [d \in Dates |-> IF d = 1 THEN "scheduled" ELSE "manual"]},
             {[d \in Dates |-> Profile(Unmapped("success"), Unmapped("running"),
                                       Unmapped("running"))],
              [d \in Dates |->
                  Profile(Unmapped("running"),
                          (0 :> "running") @@ (1 :> "success"),
                          Unmapped(None))],
              [d \in Dates |->
                  Profile(Unmapped("success"),
                          (0 :> "success") @@ (1 :> "removed"),
                          Absent)]})

NextMark ==
    \/ \E a \in SetStateArgs({{"B"}, {"C"}}, BOOLEAN, {"success", None}) :
          steps < MaxMarkSteps /\ SetState(a)
    \/ \E w \in WrapperCalls :
          steps < MaxMarkSteps /\ SetDagRunStateToSuccess(w)
    \/ \E w \in WrapperCalls :
          steps < MaxMarkSteps /\ SetDagRunStateToFailed(w)
    \/ \E w \in WrapperCalls :
          steps < MaxMarkSteps /\ SetDagRunStateToRunning(w)

SpecMark == InitMark /\ [][NextMark]_vars

(***************************************************************************)
(* SpecExpand: the mapped task expander alone, on one run, from every      *)
(* state of the placeholder.                                               *)
(***************************************************************************)
InitExpand ==
    InitWith({PeriodicDag},
             {[d \in Dates |-> IF d = e THEN "scheduled" ELSE "absent"] :
                 e \in Dates},
             {[d \in Dates |-> Profile(Unmapped("success"), Unmapped(s),
                                       Unmapped(None))] :
                 s \in TaskInstanceState \cup {None}}
             \cup {[d \in Dates |-> Profile(Unmapped("success"), Absent,
                                            Unmapped(None))]})

NextExpand ==
    \E d \in Dates, n \in Lengths :
        steps < MaxExpandSteps /\ ExpandMappedTask(d, n)

SpecExpand == InitExpand /\ [][NextExpand]_vars

(***************************************************************************)
(* SpecRuns: the run materializer alone, on the primary and the nested     *)
(* DAG, over lists of one or two data intervals (repeated ones included),  *)
(* on stores with missing, scheduled and manual runs.                      *)
(***************************************************************************)
Intervals == {DataInterval(d) : d \in AllDates}

InfoLists == {<<x>> : x \in Intervals} \cup (Intervals \X Intervals)

InitRuns ==
    InitWith({PeriodicDag},
             {[d \in Dates |-> "scheduled"],
              [d \in Dates |-> IF d = 1 THEN "scheduled" ELSE "absent"],
              [d \in Dates |-> IF d = 1 THEN "scheduled" ELSE "manual"]},
             {[d \in Dates |-> Profile(Unmapped("success"), Unmapped("running"),
                                       Unmapped("running"))]})

NextRuns ==
    \E d \in {dag_id, subdag(dag_id, "C")}, infos \in InfoLists :
        steps < MaxRunsSteps /\ CreateDagruns(d, infos)

SpecRuns == InitRuns /\ [][NextRuns]_vars

(***************************************************************************)
(* SpecLock: commit-mode set_state calls of concurrent sessions on the     *)
(* mapped task of one run, interleaved with each other and with            *)
(* expansions of that task.                                                *)
(***************************************************************************)
LockArgs ==
    [tasks : {{MappedTask}}, execution_date : {1}, localized : {TRUE},
     task_dags : {"one"}, upstream : {FALSE}, downstream : {FALSE},
     future : {FALSE}, past : {FALSE}, state : {"success", "failed"},
     commit : {TRUE}]

InitLock ==
    InitWith({PeriodicDag},
             {[d \in Dates |-> IF d = 1 THEN "scheduled" ELSE "absent"]},
             {[d \in Dates |-> Profile(Unmapped("success"), Unmapped("running"),
                                       Unmapped(None))],
              [d \in Dates |->
                  Profile(Unmapped("success"),
                          (0 :> "running") @@ (1 :> "success"),
                          Unmapped(None))]})

NextLock ==
    \/ \E p \in Sessions, a \in LockArgs :
          steps < MaxLockSteps /\ SelectForUpdate(p, a)
    \/ \E p \in Sessions :
          steps < MaxLockSteps /\ CommitAltered(p)
    \/ \E n \in Lengths :
          steps < MaxLockSteps /\ ExpandUnlocked(1, n)

SpecLock == InitLock /\ [][NextLock]_vars

(***************************************************************************)
(* SpecValidate: set_state and the wrappers over valid and invalid         *)
(* arguments: an empty task list, an anchor that is not timezone-aware,    *)
(* tasks of several DAGs, tasks without a DAG, and a wrapper called        *)
(* without a DAG or without a timestamp.                                   *)
(***************************************************************************)
ValidateArgs ==
    [tasks : {{}, {MappedTask}}, execution_date : Dates, localized : BOOLEAN,
     task_dags : {"one", "many", "none"}, upstream : {FALSE},
     downstream : BOOLEAN, future : {FALSE}, past : {FALSE},
     state : {"success"}, commit : BOOLEAN]

ValidateWrapperCalls ==
    [dag_given : BOOLEAN, execution_date : {{}} \cup {{d} : d \in Dates},
     localized : BOOLEAN, commit : BOOLEAN]

InitValidate ==
    InitWith({PeriodicDag},
             {[d \in Dates |-> IF d = 1 THEN "scheduled" ELSE "absent"]},
             {[d \in Dates |-> Profile(Unmapped("success"), Unmapped("running"),
                                       Unmapped("running"))],
              [d \in Dates |-> Profile(Unmapped("success"), Unmapped("success"),
                                       Unmapped(None))]})

NextValidate ==
    \/ \E a \in ValidateArgs :
          steps < MaxValidateSteps /\ SetState(a)
    \/ \E w \in ValidateWrapperCalls :
          steps < MaxValidateSteps /\ SetDagRunStateToSuccess(w)
    \/ \E w \in ValidateWrapperCalls :
          steps < MaxValidateSteps /\ SetDagRunStateToFailed(w)
    \/ \E w \in ValidateWrapperCalls :
          steps < MaxValidateSteps /\ SetDagRunStateToRunning(w)

SpecValidate == InitValidate /\ [][NextValidate]_vars

(***************************************************************************)
(* SpecDates: _get_execution_dates over DAGs with and without a start_date *)
(* in default_args and on the DAG, of each kind of timetable (periodic,    *)
(* never scheduling, scheduling once), over stores with no, one or two     *)
(* runs, from every anchor and with every choice of the two flags.         *)
(***************************************************************************)
DateConfs ==
    [default_args_start_date : {{}, {0}, {1}}, start_date : {{}, {1}, {2}},
     timetable : {"periodic", "never", "once"}]

GetExecutionDates(execution_date, future, past) ==
    \E r \in {_get_execution_dates(dag, dag_run, execution_date, future, past)} :
        /\ Called("_get_execution_dates",
                  [execution_date |-> execution_date, future |-> future,
                   past |-> past],
                  r.dates, r.raised)
        /\ UNCHANGED <<ti, dag_run, ti_history, expansions>>

InitDates ==
    InitWith(DateConfs,
             {[d \in Dates |-> "scheduled"],
              [d \in Dates |-> "absent"],
              [d \in Dates |-> IF d = 1 THEN "scheduled" ELSE "absent"],
              [d \in Dates |-> IF d = 1 THEN "absent" ELSE "manual"]},
             {[d \in Dates |-> Profile(Unmapped("success"), Unmapped("running"),
                                       Unmapped("running"))]})

\* set_state over the same DAGs and stores, with and without future
DateArgs ==
    [tasks : {{MappedTask}}, execution_date : Dates, localized : {TRUE},
     task_dags : {"one"}, upstream : {FALSE}, downstream : {FALSE},
     future : BOOLEAN, past : {FALSE}, state : {"success"}, commit : BOOLEAN]

NextDates ==
    \/ \E execution_date \in Dates, future \in BOOLEAN, past \in BOOLEAN :
          steps < MaxDatesSteps /\ GetExecutionDates(execution_date, future, past)
    \/ \E a \in DateArgs :
          steps < MaxDatesSteps /\ SetState(a)

SpecDates == InitDates /\ [][NextDates]_vars

(***************************************************************************)
(* SpecReexpand: the mapped task expander on one run whose mapped task's   *)
(* instances are marked, with a finished or an unfinished state, between   *)
(* the expansions.                                                         *)
(***************************************************************************)
ReexpandArgs ==
    [tasks : {{MappedTask}}, execution_date : Dates, localized : {TRUE},
     task_dags : {"one"}, upstream : {FALSE}, downstream : {FALSE},
     future : {FALSE}, past : {FALSE}, state : {"queued", "success"},
     commit : {TRUE}]

NextReexpand ==
    \/ \E d \in Dates, n \in Lengths :
          steps < MaxReexpandSteps /\ ExpandMappedTask(d, n)
    \/ \E a \in ReexpandArgs :
          steps < MaxReexpandSteps /\ SetState(a)

SpecReexpand == InitExpand /\ [][NextReexpand]_vars

(***************************************************************************)
(* SpecAtomic: expand_mapped_task statement by statement in the            *)
(* scheduler's session, which commits after the call returns; the process  *)
(* can stop at any statement, and the transaction is then rolled back.     *)
(***************************************************************************)
Scheduler == 1

Flushed(view) ==
    \E r \in {flush(Store, view)} :
        /\ ti' = r.ti
        /\ ti_history' = r.ti_history

ExpandOpen(date, task_map_info_length) ==
    /\ session[Scheduler].pc = "idle"
    /\ RunKey(dag_id, date) \in DOMAIN dag_run
    /\ TIKey(dag_id, UpstreamTask, date, PlaceholderIndex) \in DOMAIN ti
    /\ \E r \in {Opened(Store, date, task_map_info_length)} :
          IF r.raised
          THEN /\ Logged("expand_mapped_task",
                         [date |-> date,
                          task_map_info_length |-> task_map_info_length],
                         <<>>, TRUE)
               /\ UNCHANGED <<ti, ti_history, session>>
          ELSE /\ Logged("expand_open",
                         [date |-> date,
                          task_map_info_length |-> task_map_info_length],
                         <<>>, FALSE)
               /\ session' =
                     [session EXCEPT
                        ![Scheduler] =
                           [NoTransaction EXCEPT
                              !.pc = r.pc,
                              !.a = [date |-> date,
                                     task_map_info_length |-> task_map_info_length,
                                     state |-> r.state,
                                     indexes_to_map |-> r.indexes_to_map,
                                     begin |-> View(Store)],
                              !.read = r.view]]
               /\ Flushed(r.view)
    /\ UNCHANGED <<dag_run, expansions>>

ExpandMerge ==
    /\ session[Scheduler].pc = "expanding"
    /\ session[Scheduler].a.indexes_to_map /= {}
    /\ \E index \in {NextIndex(session[Scheduler].a.indexes_to_map)} :
        \E view \in {Merged(session[Scheduler].read, session[Scheduler].a.date,
                            index, session[Scheduler].a.state)} :
          /\ session' = [session EXCEPT
                            ![Scheduler].read = view,
                            ![Scheduler].a.indexes_to_map = @ \ {index}]
          /\ Flushed(view)
          /\ Logged("expand_merge", [index |-> index], {}, FALSE)
    /\ UNCHANGED <<dag_run, expansions>>

ExpandUpdate ==
    /\ session[Scheduler].pc = "expanding"
    /\ session[Scheduler].a.indexes_to_map = {}
    /\ \E view \in {Updated(session[Scheduler].read, session[Scheduler].a.date,
                             Max(scalar(session[Scheduler].a.task_map_info_length)))} :
          /\ session' = [session EXCEPT ![Scheduler].read = view,
                                         ![Scheduler].pc = "flushed"]
          /\ Flushed(view)
          /\ Logged("expand_update", session[Scheduler].a, {}, FALSE)
    /\ UNCHANGED <<dag_run, expansions>>

\* the call has returned and the caller's session commits
ExpandCommit ==
    /\ session[Scheduler].pc = "flushed"
    /\ ti' = session[Scheduler].read.ti
    /\ ti_history' = session[Scheduler].read.ti_history
    /\ expansions' =
          [expansions EXCEPT
             ![session[Scheduler].a.date] =
                Append(@, Max(scalar(session[Scheduler].a.task_map_info_length)))]
    /\ session' = [session EXCEPT ![Scheduler] = NoTransaction]
    /\ Logged("expand_mapped_task",
              [date |-> session[Scheduler].a.date,
               task_map_info_length |-> session[Scheduler].a.task_map_info_length],
              <<>>, FALSE)
    /\ UNCHANGED dag_run

\* the process stops before the commit: the transaction is rolled back
ExpandCrash ==
    /\ session[Scheduler].pc \in {"expanding", "flushed"}
    /\ session' = [session EXCEPT ![Scheduler] = NoTransaction]
    /\ Logged("expand_crash", session[Scheduler].a, {}, TRUE)
    /\ UNCHANGED <<ti, ti_history, dag_run, expansions>>

NextAtomic ==
    \/ \E d \in Dates, n \in Lengths :
          steps < MaxAtomicSteps /\ ExpandOpen(d, n)
    \/ steps < MaxAtomicSteps /\ ExpandMerge
    \/ steps < MaxAtomicSteps /\ ExpandUpdate
    \/ steps < MaxAtomicSteps /\ ExpandCommit
    \/ steps < MaxAtomicSteps /\ ExpandCrash

SpecAtomic == InitExpand /\ [][NextAtomic]_vars

(***************************************************************************)
(* SpecSparse: set_state on a schedule with holes: the only run is a       *)
(* manually triggered one, or a manual run follows a scheduled one.        *)
(***************************************************************************)
InitSparse ==
    InitWith({PeriodicDag},
             {[d \in Dates |-> IF d = 1 THEN "absent" ELSE "manual"],
              [d \in Dates |-> IF d = 1 THEN "scheduled" ELSE "manual"],
              [d \in Dates |-> IF d = 1 THEN "scheduled" ELSE "absent"]},
             {[d \in Dates |-> Profile(Unmapped("success"), Unmapped("running"),
                                       Unmapped("running"))]})

NextSparse ==
    \E a \in SetStateArgs({{"B"}, {"C"}}, BOOLEAN, {"success"}) :
        steps < MaxSparseSteps /\ SetState(a)

SpecSparse == InitSparse /\ [][NextSparse]_vars

(***************************************************************************)
(* SpecHistory: record_ti called from two sessions at once, on a run whose *)
(* mapped task is expanded and whose task instances are marked between the *)
(* steps.                                                                  *)
(***************************************************************************)
RecordTiQuery(p, key) ==
    /\ session[p].pc = "idle"
    /\ key \in DOMAIN ti
    /\ session' = [session EXCEPT
                      ![p] = [NoTransaction EXCEPT !.pc = "queried",
                                                   !.a = [key |-> key],
                                                   !.read = Queried(Store, key)]]
    /\ Logged("record_ti_query", [p |-> p, key |-> key], {}, FALSE)
    /\ UNCHANGED <<ti, dag_run, ti_history, expansions>>

RecordTiFlush(p) ==
    /\ session[p].pc = "queried"
    /\ \E r \in {record_ti_flush(Store, session[p].a.key, session[p].read)} :
          /\ ti' = r.ti
          /\ ti_history' = r.ti_history
          /\ Logged("record_ti", [p |-> p, key |-> session[p].a.key], {}, r.raised)
    /\ session' = [session EXCEPT ![p] = NoTransaction]
    /\ UNCHANGED <<dag_run, expansions>>

HistoryArgs ==
    [tasks : {{"C"}}, execution_date : {1}, localized : {TRUE},
     task_dags : {"one"}, upstream : {FALSE}, downstream : {FALSE},
     future : {FALSE}, past : {FALSE}, state : {"success"}, commit : {TRUE}]

InitHistory ==
    InitWith({PeriodicDag},
             {[d \in Dates |-> IF d = 1 THEN "scheduled" ELSE "absent"]},
             {[d \in Dates |-> Profile(Unmapped("success"), Unmapped("running"),
                                       Unmapped("running"))]})

NextHistory ==
    \/ \E p \in Sessions, k \in DOMAIN ti :
          steps < MaxHistorySteps /\ RecordTiQuery(p, k)
    \/ \E p \in Sessions :
          steps < MaxHistorySteps /\ RecordTiFlush(p)
    \/ \E n \in {{1}, {2}} :
          steps < MaxHistorySteps /\ ExpandMappedTask(1, n)
    \/ \E a \in HistoryArgs :
          steps < MaxHistorySteps /\ SetState(a)

SpecHistory == InitHistory /\ [][NextHistory]_vars

(***************************************************************************)
(* The sensor poke loop (airflow/sensors/base.py).  Durations and clock    *)
(* readings are floats in the code; here they are counted in ticks of half *)
(* a second, so that int() of a duration has something to truncate.  The   *)
(* far-future limit of the store and the largest timedelta are scaled to   *)
(* the same clock.                                                         *)
(***************************************************************************)
TicksPerSecond == 2
Seconds(n) == n * TicksPerSecond         \* n whole seconds, in ticks
int(duration) == duration \div TicksPerSecond   \* int(x), in whole seconds

Min(a, b) == IF a <= b THEN a ELSE b

RECURSIVE Pow2(_)
Pow2(n) == IF n = 0 THEN 1 ELSE 2 * Pow2(n - 1)

FailPolicy == {"none", "skip_on_any_error", "skip_on_timeout", "ignore_error"}

TimeoutClass ==
    {"AirflowSensorTimeout", "AirflowTaskTimeout", "AirflowPokeFailException",
     "AirflowSkipException"}

\* what one call of poke() does: returns something truthy or falsy, or raises
PokeResults == {"truthy", "falsy", "Exception"} \cup TimeoutClass

\* 2038-01-19 03:14:07 UTC and timedelta.max, on the clock of the model
_MYSQL_TIMESTAMP_MAX == 6
timedelta_max_total_seconds == 1000000

_is_metadatabase_mysql(s) == s.mysql

\* variant: the digest is taken over the number of the execution
run_hash_of_execution(s, started_at, poke_count) ==
    s.sha1[<<started_at, s.executions>>]

\* int(hashlib.sha1(f"{dag_id}#{task_id}#{started_at}#{poke_count}")): the
\* digest is a fixed function of the four values, any one of them
run_hash(s, started_at, poke_count) == s.sha1[<<started_at, poke_count>>]

\* max(int(poke_interval * 2 ** (poke_count - 2)), 1), in whole seconds
min_backoff(s, poke_count) ==
    Max({(s.poke_interval * Pow2(poke_count)) \div (4 * TicksPerSecond), 1})

modded_hash(s, started_at, poke_count) ==
    min_backoff(s, poke_count)
        + (run_hash(s, started_at, poke_count) % min_backoff(s, poke_count))

\* min(modded_hash, timedelta.max.total_seconds() - 1), in whole seconds
delay_backoff_in_seconds(s, started_at, poke_count) ==
    Min(modded_hash(s, started_at, poke_count), timedelta_max_total_seconds - 1)

\* reschedule mode: the poke count is simulated forward from the elapsed time
RECURSIVE estimated_poke_count(_, _, _, _, _)
estimated_poke_count(s, started_at, elapsed_time, cumulative_time, count) ==
    IF cumulative_time <= elapsed_time
    THEN estimated_poke_count(
             s, started_at, elapsed_time,
             cumulative_time
                 + Seconds(delay_backoff_in_seconds(s, started_at, count + 1)),
             count + 1)
    ELSE count

\* variant: the loop's own poke count is used in both modes
PokeCountUsed_live(s, started_at, elapsed, poke_count) == poke_count

\* the poke count the backoff is computed for
PokeCountUsed(s, started_at, elapsed, poke_count) ==
    IF s.mode = "reschedule"
    THEN estimated_poke_count(s, started_at, elapsed, 0, 0)
    ELSE poke_count

\* if self.max_wait: new_interval = min(max_wait, new_interval)
CappedByMaxWait(s, new_interval) ==
    IF s.max_wait /= {} /\ Max(s.max_wait) /= 0
    THEN Min(Max(s.max_wait), new_interval)
    ELSE new_interval

\* min(self.timeout - int(run_duration()), delay_backoff_in_seconds)
CappedByTimeout(s, elapsed, delay) ==
    CappedByMaxWait(s, Min(s.timeout - Seconds(int(elapsed)), Seconds(delay)))

_get_next_poke_interval(s, started_at, elapsed, poke_count) ==
    IF ~s.exponential_backoff
    THEN s.poke_interval
    ELSE CappedByTimeout(
             s, elapsed,
             delay_backoff_in_seconds(
                 s, started_at, PokeCountUsed(s, started_at, elapsed, poke_count)))

\* the loop exits by raising e
Raised(s, e) == [s EXCEPT !.pc = "done", !.exception = e]

\* the loop breaks on a truthy poke result and execute returns
Returned(s) == [s EXCEPT !.pc = "done", !.exception = None]

\* time.sleep(interval); poke_count += 1.  time.sleep raises ValueError
\* when it is asked to sleep a negative time
Slept(s, interval) ==
    IF interval < 0
    THEN Raised([s EXCEPT !.wait = {interval}], "ValueError")
    ELSE [s EXCEPT !.now = @ + interval, !.poke_count = @ + 1,
                   !.wait = {interval}]

\* the task runner records the reschedule of this attempt and frees the slot
_handle_reschedule(s, reschedule_date) ==
    [s EXCEPT !.pc = "idle", !.exception = "AirflowRescheduleException",
              !.task_reschedule =
                  Append(@, [start_date |-> s.executed_at,
                             reschedule_date |-> reschedule_date])]

\* variant: a reschedule date over the limit is cut down to the limit
Rescheduled_truncating(s, next_poke_interval) ==
    _handle_reschedule(
        [s EXCEPT !.wait = {next_poke_interval}],
        IF _is_metadatabase_mysql(s)
        THEN Min(s.now + next_poke_interval, _MYSQL_TIMESTAMP_MAX)
        ELSE s.now + next_poke_interval)

Rescheduled(s, next_poke_interval) ==
    IF _is_metadatabase_mysql(s) /\ s.now + next_poke_interval > _MYSQL_TIMESTAMP_MAX
    THEN Raised(s, "AirflowSensorTimeout")
    ELSE _handle_reschedule([s EXCEPT !.wait = {next_poke_interval}],
                            s.now + next_poke_interval)

\* variant: the loop sleeps in both modes
Waited_sleeping(s, interval) == Slept(s, interval)

Waited(s, interval) ==
    IF s.mode = "reschedule" THEN Rescheduled(s, interval) ELSE Slept(s, interval)

\* one call of _get_next_poke_interval: what it was given, the poke count
\* it computed the backoff for, and what it returned
Computation(s, elapsed, interval) ==
    [started_at |-> s.started_at, elapsed |-> elapsed,
     poke_count |-> s.poke_count,
     poke_count_used |-> PokeCountUsed(s, s.started_at, elapsed, s.poke_count),
     delay_backoff_in_seconds |->
         delay_backoff_in_seconds(
             s, s.started_at,
             PokeCountUsed(s, s.started_at, elapsed, s.poke_count)),
     interval |-> interval]

NextPoke(s, elapsed, interval) ==
    Waited([s EXCEPT !.computed = {Computation(s, elapsed, interval)},
                     !.computations = @ \cup {Computation(s, elapsed, interval)}],
           interval)

run_duration(s) == s.now - s.started_at

\* run_duration is a closure over the clock: _get_next_poke_interval reads
\* it again, s.lag ticks after the timeout check of the loop has read it
Late(s) == [s EXCEPT !.now = @ + s.lag]

\* variant: the loop has no timeout check
NotSatisfied_without_timeout(s) ==
    NextPoke(Late(s), run_duration(Late(s)),
             _get_next_poke_interval(Late(s), s.started_at,
                                     run_duration(Late(s)), s.poke_count))

\* variant: both skip policies turn the timeout into a skip
NotSatisfied_skipping_on_any(s) ==
    IF run_duration(s) > s.timeout
    THEN Raised(s, IF s.fail_policy \in {"skip_on_timeout", "skip_on_any_error"}
                   THEN "AirflowSkipException" ELSE "AirflowSensorTimeout")
    ELSE NextPoke(Late(s), run_duration(Late(s)),
                  _get_next_poke_interval(Late(s), s.started_at,
                                          run_duration(Late(s)), s.poke_count))

\* the poke result is falsy: the timeout check, then the wait
NotSatisfied(s) ==
    IF run_duration(s) > s.timeout
    THEN Raised(s, IF s.fail_policy = "skip_on_timeout"
                   THEN "AirflowSkipException" ELSE "AirflowSensorTimeout")
    ELSE NextPoke(Late(s), run_duration(Late(s)),
                  _get_next_poke_interval(Late(s), s.started_at,
                                          run_duration(Late(s)), s.poke_count))

\* variant: skip_on_timeout skips on every exception
Poked_skipping_on_generic(s, result) ==
    IF result \in TimeoutClass \cup {"Exception"}
    THEN IF s.fail_policy \in {"skip_on_timeout", "skip_on_any_error"}
         THEN Raised(s, "AirflowSkipException")
         ELSE IF s.fail_policy = "ignore_error" /\ result = "Exception"
         THEN NotSatisfied(s)
         ELSE Raised(s, result)
    ELSE IF result = "truthy" THEN Returned(s)
    ELSE NotSatisfied(s)

\* variant: ignore_error swallows every exception
Poked_ignoring_timeouts(s, result) ==
    IF result \in TimeoutClass \cup {"Exception"} /\ s.fail_policy = "ignore_error"
    THEN NotSatisfied(s)
    ELSE IF result \in TimeoutClass
    THEN IF s.fail_policy \in {"skip_on_timeout", "skip_on_any_error"}
         THEN Raised(s, "AirflowSkipException")
         ELSE Raised(s, result)
    ELSE IF result = "Exception"
    THEN IF s.fail_policy = "skip_on_any_error"
         THEN Raised(s, "AirflowSkipException")
         ELSE Raised(s, "Exception")
    ELSE IF result = "truthy" THEN Returned(s)
    ELSE NotSatisfied(s)

\* the try/except around self.poke(context) and what follows it
Poked(s, result) ==
    IF result \in TimeoutClass
    THEN IF s.fail_policy \in {"skip_on_timeout", "skip_on_any_error"}
         THEN Raised(s, "AirflowSkipException")
         ELSE Raised(s, result)
    ELSE IF result = "Exception"
    THEN IF s.fail_policy = "ignore_error" THEN NotSatisfied(s)
         ELSE IF s.fail_policy = "skip_on_any_error"
         THEN Raised(s, "AirflowSkipException")
         ELSE Raised(s, "Exception")
    ELSE IF result = "truthy" THEN Returned(s)
    ELSE NotSatisfied(s)

\* one pass of the while loop of execute; the poke takes duration ticks
PokeOnce(s, result, duration) ==
    Poked([s EXCEPT !.now = @ + duration, !.poke_return = result,
                    !.elapsed = s.now + duration - s.started_at,
                    !.pokes = @ + 1, !.wait = {}, !.computed = {}],
          result)

\* select the start_date of the first TaskReschedule row of the try
_orig_start_date(s) ==
    IF s.task_reschedule = <<>> THEN {} ELSE {s.task_reschedule[1].start_date}

\* the head of execute: started_at, poke_count = 1
Entered(s, now) ==
    [s EXCEPT !.now = now, !.executed_at = now, !.pc = "poking",
              !.executions = @ + 1, !.poke_count = 1, !.exception = None,
              !.poke_return = None, !.wait = {}, !.computed = {},
              !.started_at = IF s.mode = "reschedule" /\ _orig_start_date(s) /= {}
                             THEN Max(_orig_start_date(s)) ELSE now]

\* the scheduler runs a rescheduled sensor no earlier than its reschedule date
ReadyAt(s) ==
    IF s.task_reschedule = <<>> THEN s.now
    ELSE s.task_reschedule[Len(s.task_reschedule)].reschedule_date

\* the constructor's checks of poke_interval, timeout and mode
_validate_input_values(s) ==
    /\ s.poke_interval >= 0
    /\ s.timeout >= 0
    /\ s.mode \in {"poke", "reschedule"}
    /\ ~(/\ s.mode = "reschedule"
         /\ _is_metadatabase_mysql(s)
         /\ s.now + s.poke_interval > _MYSQL_TIMESTAMP_MAX)

\* the clock of the model starts when the sensor is first executed
Execute(delay) ==
    /\ sensor.pc = "idle"
    /\ sensor.executions < MaxExecutions
    /\ sensor.executions = 0 => delay = 0
    /\ sensor' = Entered(sensor, Max({sensor.now, ReadyAt(sensor)}) + delay)
    /\ steps' = steps + 1
    /\ UNCHANGED <<dag, ti, dag_run, ti_history, last, pre, expansions, session>>

Poke(result, duration) ==
    /\ sensor.pc = "poking"
    /\ sensor.poke_count <= MaxPokeCount
    /\ sensor' = PokeOnce(sensor, result, duration)
    /\ steps' = steps + 1
    /\ UNCHANGED <<dag, ti, dag_run, ti_history, last, pre, expansions, session>>

\* one pass of the loop in which lag ticks go by between the timeout check
\* and the computation of the interval
PokeLate(result, duration, lag) ==
    /\ sensor.pc = "poking"
    /\ sensor.poke_count <= MaxPokeCount
    /\ sensor' = PokeOnce([sensor EXCEPT !.lag = lag], result, duration)
    /\ steps' = steps + 1
    /\ UNCHANGED <<dag, ti, dag_run, ti_history, last, pre, expansions, session>>

(***************************************************************************)
(* SpecSensor: one sensor of every fail policy, in both modes, with and    *)
(* without exponential backoff and max_wait, on a store with and without   *)
(* the far-future limit; every poke returns or raises anything and takes   *)
(* no time or half a second.                                               *)
(***************************************************************************)
HashValues == {0, 1}
StartTimes == {0}
PokeDurations == {0, 1}

SensorConfs ==
    [fail_policy : FailPolicy, mode : {"poke", "reschedule"},
     poke_interval : {Seconds(1), Seconds(3)}, timeout : {4, 5},
     exponential_backoff : BOOLEAN, max_wait : {{}, {0}, {Seconds(1)}},
     mysql : BOOLEAN,
     sha1 : [StartTimes \X (1..MaxPokeCount) -> HashValues]]

NewSensor(c) ==
    [fail_policy |-> c.fail_policy, mode |-> c.mode,
     poke_interval |-> c.poke_interval, timeout |-> c.timeout,
     exponential_backoff |-> c.exponential_backoff, max_wait |-> c.max_wait,
     mysql |-> c.mysql, sha1 |-> c.sha1,
     now |-> 0, pc |-> "idle", executions |-> 0, executed_at |-> 0,
     started_at |-> 0, poke_count |-> 0, pokes |-> 0, task_reschedule |-> <<>>,
     poke_return |-> None, elapsed |-> 0, wait |-> {}, computed |-> {},
     computations |-> {}, lag |-> 0,
     exception |-> None]

InitSensor ==
    /\ \E c \in SensorConfs :
          /\ sensor = NewSensor(c)
          /\ _validate_input_values(sensor)
    /\ dag = PeriodicDag
    /\ ti = <<>>
    /\ dag_run = <<>>
    /\ ti_history = {}
    /\ pre = [ti |-> <<>>, dag_run |-> <<>>, ti_history |-> {}]
    /\ last = [op |-> "init", a |-> <<>>, ret |-> {}, raised |-> FALSE]
    /\ expansions = [d \in Dates |-> <<>>]
    /\ session = [p \in Sessions |-> NoTransaction]
    /\ steps = 0

NextSensor ==
    \/ \E delay \in PokeDurations : Execute(delay)
    \/ \E result \in PokeResults, duration \in PokeDurations :
          Poke(result, duration)

SpecSensor == InitSensor /\ [][NextSensor]_vars

(***************************************************************************)
(* SpecLate: the sensors of SpecSensor that have no fail policy and no     *)
(* far-future limit, on a machine where up to half a second goes by        *)
(* between the timeout check of the loop and the computation of the        *)
(* interval.                                                               *)
(***************************************************************************)
PokeLags == {0, 1}

InitLate ==
    /\ InitSensor
    /\ sensor.fail_policy = "none"
    /\ ~sensor.mysql

NextLate ==
    \/ \E delay \in PokeDurations : Execute(delay)
    \/ \E result \in {"truthy", "falsy"}, duration \in PokeDurations,
          lag \in PokeLags :
          PokeLate(result, duration, lag)

SpecLate == InitLate /\ [][NextLate]_vars

(***************************************************************************)
(* SpecBlocking: a blocking sensor of every fail policy with a timeout of  *)
(* one second or one and a half, a poke_interval of 0 or one second, with  *)
(* and without exponential backoff and max_wait.  The clock advances:      *)
(* every poke takes half a second or a second.  Every poke returns or      *)
(* raises: a loop that is poking is not left waiting for its poke forever. *)
(***************************************************************************)
BlockingDurations == {1, 2}

BlockingConfs ==
    [fail_policy : FailPolicy, mode : {"poke"},
     poke_interval : {0, Seconds(1)}, timeout : {2, 3},
     exponential_backoff : BOOLEAN, max_wait : {{}, {Seconds(1)}},
     mysql : {FALSE},
     sha1 : [StartTimes \X (1..MaxPokeCount) -> HashValues]]

InitBlocking ==
    /\ \E c \in BlockingConfs :
          /\ sensor = NewSensor(c)
          /\ _validate_input_values(sensor)
    /\ dag = PeriodicDag
    /\ ti = <<>>
    /\ dag_run = <<>>
    /\ ti_history = {}
    /\ pre = [ti |-> <<>>, dag_run |-> <<>>, ti_history |-> {}]
    /\ last = [op |-> "init", a |-> <<>>, ret |-> {}, raised |-> FALSE]
    /\ expansions = [d \in Dates |-> <<>>]
    /\ session = [p \in Sessions |-> NoTransaction]
    /\ steps = 0

PokeReturnsOrRaises ==
    \E result \in PokeResults, duration \in BlockingDurations :
       Poke(result, duration)

NextBlocking ==
    \/ Execute(0)
    \/ PokeReturnsOrRaises

SpecBlocking ==
    InitBlocking /\ [][NextBlocking]_vars /\ WF_vars(PokeReturnsOrRaises)

(***************************************************************************)
(* Vocabulary of the properties.                                           *)
(***************************************************************************)
IsCall(op) == last.op = op /\ ~last.raised

Primary(keys) == {k \in keys : k.dag_id = dag_id}
Nested(keys) == {k \in keys : k.dag_id /= dag_id}

CreatedTIs == DOMAIN ti \ DOMAIN pre.ti
CreatedRuns == DOMAIN dag_run \ DOMAIN pre.dag_run

\* the task instances whose state the last call changed
StateChanged ==
    {k \in DOMAIN pre.ti \cap DOMAIN ti : ti[k].state /= pre.ti[k].state}

\* reachability in the task graph, by repeated composition of the edges
RECURSIVE Paths(_)
Paths(R) ==
    LET longer == R \cup {<<p[1][1], p[2][2]>> :
                              p \in {q \in R \X Edges : q[1][2] = q[2][1]}}
    IN  IF longer = R THEN R ELSE Paths(longer)

Descendants(t) == {p[2] : p \in {q \in Paths(Edges) : q[1] = t}}
Ancestors(t) == {p[1] : p \in {q \in Paths(Edges) : q[2] = t}}

Closure(tasks, downstream, upstream) ==
    tasks
    \cup {u \in tasks_of(dag_id) : downstream /\ \E t \in tasks : u \in Descendants(t)}
    \cup {u \in tasks_of(dag_id) : upstream /\ \E t \in tasks : u \in Ancestors(t)}

\* the logical dates set_state confirms on the store it is called on
ConfirmedDates(a) ==
    LET got == _get_execution_dates(dag, pre.dag_run, a.execution_date,
                                    a.future, a.past)
    IN  {logical_date(x) :
            x \in Range(_verify_dag_run_integrity(pre, got.dates).confirmed_infos)}

(***************************************************************************)
(* C1 as stated: set_state with commit=False creates, modifies and deletes *)
(* nothing: every DagRun and every TaskInstance is as it was before.       *)
(***************************************************************************)
C1_DryRunLeavesStoreUntouched ==
    (last.op = "set_state" /\ ~last.a.commit) =>
        (ti = pre.ti /\ dag_run = pre.dag_run)

(***************************************************************************)
(* C1 amended: set_state with commit=False modifies and deletes nothing:   *)
(* every DagRun and TaskInstance that existed before the call is exactly   *)
(* as it was.  It only creates: the missing runs of the nested DAG of a    *)
(* sub-workflow container of the closure (state running, run type          *)
(* backfill), and task instances with null state.                          *)
(***************************************************************************)
C1_DryRunOnlyCreates ==
    (last.op = "set_state" /\ ~last.a.commit) =>
        /\ \A k \in DOMAIN pre.ti : k \in DOMAIN ti /\ ti[k] = pre.ti[k]
        /\ \A r \in DOMAIN pre.dag_run :
              r \in DOMAIN dag_run /\ dag_run[r] = pre.dag_run[r]
        /\ \A r \in CreatedRuns :
              /\ r.dag_id /= dag_id
              /\ \E t \in Closure(last.a.tasks, last.a.downstream, last.a.upstream) :
                    subdag(dag_id, t) = r.dag_id
              /\ dag_run[r].state = "running"
              /\ dag_run[r].run_type = "backfill"
        /\ \A k \in CreatedTIs : ti[k] = TaskInstance(None)

\* a dry run over a closure with the container created the nested run
C1_Witness ==
    /\ IsCall("set_state")
    /\ ~last.a.commit
    /\ "C" \in Closure(last.a.tasks, last.a.downstream, last.a.upstream)
    /\ Nested(CreatedRuns) /= {}
    /\ Nested(CreatedTIs) /= {}
    /\ last.ret /= {}

(***************************************************************************)
(* C2: set_state with commit=True changes the state of exactly the task    *)
(* instances that set_state with commit=False returns on the same store:   *)
(* each of them ends in the target state, every other one keeps its state. *)
(***************************************************************************)
C2_CommitChangesExactlyTheDryRunSet ==
    (IsCall("set_state") /\ last.a.commit) =>
        \E dry \in {set_state(dag, pre, [last.a EXCEPT !.commit = FALSE])} :
            /\ ~dry.raised
            /\ last.ret = dry.ret
            /\ \A k \in dry.ret : k \in DOMAIN ti /\ ti[k].state = last.a.state
            /\ \A k \in DOMAIN pre.ti \ dry.ret :
                  k \in DOMAIN ti /\ ti[k].state = pre.ti[k].state
            /\ \A k \in CreatedTIs \ dry.ret : ti[k].state = None

\* a commit that changed primary and nested task instances and left others
C2_Witness ==
    /\ IsCall("set_state")
    /\ last.a.commit
    /\ Primary(StateChanged) /= {}
    /\ Nested(last.ret) /= {}
    /\ \E k \in DOMAIN pre.ti \ last.ret : pre.ti[k].state /= last.a.state

(***************************************************************************)
(* C3: in the primary DAG set_state operates on the given tasks, plus the  *)
(* transitive descendants iff downstream, plus the transitive ancestors    *)
(* iff upstream: every returned task instance is of such a task, every     *)
(* candidate of such a task in a confirmed run is returned, and no task    *)
(* instance of another task is changed.  On the chain A->B->C, tasks=[B]   *)
(* gives {B}, {B, C} with downstream and {A, B, C} with both flags.        *)
(***************************************************************************)
C3_ClosureOfTasks ==
    IsCall("set_state") =>
        LET expected == Closure(last.a.tasks, last.a.downstream, last.a.upstream)
            candidates ==
                {k \in Primary(DOMAIN ti) :
                    /\ k.execution_date \in ConfirmedDates(last.a)
                    /\ k.task_id \in expected
                    /\ \/ k \notin DOMAIN pre.ti
                       \/ StateDiffers(pre.ti[k], last.a.state)}
        IN  /\ Primary(last.ret) = candidates
            /\ \A k \in Primary(DOMAIN pre.ti) :
                  k.task_id \notin expected => (k \in DOMAIN ti /\ ti[k] = pre.ti[k])
            /\ (last.a.tasks = {"B"} /\ ~last.a.downstream /\ ~last.a.upstream)
                  => expected = {"B"}
            /\ (last.a.tasks = {"B"} /\ last.a.downstream /\ ~last.a.upstream)
                  => expected = {"B", "C"}
            /\ (last.a.tasks = {"B"} /\ last.a.downstream /\ last.a.upstream)
                  => expected = {"A", "B", "C"}

\* tasks=[B] with downstream only changed instances of B and of C, none of A
C3_Witness ==
    /\ IsCall("set_state")
    /\ last.a.commit
    /\ last.a.tasks = {"B"}
    /\ last.a.downstream
    /\ ~last.a.upstream
    /\ {k.task_id : k \in Primary(StateChanged)} = {"B", "C"}
    /\ \E k \in Primary(DOMAIN ti) :
          k.task_id = "A" /\ k.execution_date = last.a.execution_date
             /\ ti[k].state /= last.a.state

(***************************************************************************)
(* C4 as stated: set_dag_run_state_to_failed with commit=True sets the run *)
(* to failed and to failed only the task instances of the run that were    *)
(* running; every task instance of the run that was not running keeps its  *)
(* state, other map indexes of a running task and the task instances of    *)
(* the nested run of a running container included.                         *)
(***************************************************************************)
C4_OnlyRunningInstancesFail ==
    (IsCall("set_dag_run_state_to_failed") /\ last.a.commit) =>
        LET date == Max(last.a.execution_date) IN
        /\ dag_run[RunKey(dag_id, date)].state = "failed"
        /\ \A k \in DOMAIN pre.ti :
              /\ k \in DOMAIN ti
              /\ (k.execution_date = date /\ pre.ti[k].state \notin State_running)
                    => ti[k].state = pre.ti[k].state
              /\ (k \in Primary({k}) /\ k.execution_date = date
                    /\ pre.ti[k].state \in State_running)
                    => ti[k].state = "failed"

(***************************************************************************)
(* C5 as stated: once a task instance is in state removed, no operation    *)
(* changes its state to anything else.                                     *)
(***************************************************************************)
C5_RemovedIsFinal ==
    \A k \in DOMAIN pre.ti :
        pre.ti[k].state = "removed" =>
            (k \in DOMAIN ti /\ ti[k].state = "removed")

(***************************************************************************)
(* Vocabulary of the expansion properties.                                 *)
(***************************************************************************)
IsExpand == IsCall("expand_mapped_task")
ExpandDate == last.a.date
ExpandLength == Max(last.a.task_map_info_length)

MappedKeys(tis, date) == {MappedKey(date, i) : i \in MappedIndexes(tis, date)}

\* the placeholder was there, unfinished, when the last call started
HadUnmapped ==
    LET placeholder == MappedKey(ExpandDate, PlaceholderIndex) IN
    /\ placeholder \in DOMAIN pre.ti
    /\ pre.ti[placeholder].state \in State_unfinished \cup {None}

\* the lengths of the run's expansions before the last call
Earlier == SubSeq(expansions[ExpandDate], 1, Len(expansions[ExpandDate]) - 1)

NonDecreasing(seq) ==
    /\ \A i \in 1..Len(seq) : seq[i] >= 0
    /\ \A i \in 1..(Len(seq) - 1) : seq[i] <= seq[i + 1]

(***************************************************************************)
(* C6 as stated: for a length N >= 1 expand_mapped_task returns exactly    *)
(* the task instances with map indexes 0, 1, ..., N-1 in ascending order,  *)
(* with or without an unfinished placeholder.                              *)
(***************************************************************************)
C6_ReturnsEveryIndex ==
    (IsExpand /\ ExpandLength >= 1) =>
        last.ret = [i \in 1..ExpandLength |-> MappedKey(ExpandDate, i - 1)]

(***************************************************************************)
(* C7: an expansion with a length N_new strictly smaller than the length   *)
(* N_old of the run's previous expansion leaves every task instance with   *)
(* map index in [N_new, N_old) removed, changes no other task instance,    *)
(* and deletes, creates and re-keys nothing.                               *)
(***************************************************************************)
C7_ShrinkRemovesExactlyTheExcess ==
    (IsExpand /\ Earlier /= <<>> /\ ExpandLength < Earlier[Len(Earlier)]) =>
        LET n_new == ExpandLength
            n_old == Earlier[Len(Earlier)]
        IN  /\ DOMAIN ti = DOMAIN pre.ti
            /\ \A k \in DOMAIN ti :
                  IF /\ k \in MappedKeys(ti, ExpandDate)
                     /\ n_new <= k.map_index
                     /\ k.map_index < n_old
                  THEN /\ ti[k].state = "removed"
                       /\ ti[k] = [pre.ti[k] EXCEPT !.state = "removed"]
                  ELSE ti[k] = pre.ti[k]

\* 3 shrunk to 1: indexes 1 and 2 became removed, index 0 is as it was
C7_Witness ==
    /\ IsExpand
    /\ Earlier /= <<>>
    /\ Earlier[Len(Earlier)] = 3
    /\ ExpandLength = 1
    /\ \A i \in {1, 2} :
          /\ pre.ti[MappedKey(ExpandDate, i)].state /= "removed"
          /\ ti[MappedKey(ExpandDate, i)].state = "removed"
    /\ ti[MappedKey(ExpandDate, 0)].state \notin {"removed", None}

(***************************************************************************)
(* C8: while the lengths of a run's expansions are non-decreasing, a call  *)
(* removes, deletes, re-creates and overwrites no task instance with map   *)
(* index >= 0; it only adds rows for the indexes above the previous        *)
(* maximum up to N-1, and a call with the length of the previous one       *)
(* changes nothing in the store.                                           *)
(***************************************************************************)
C8_GrowsForward ==
    (IsExpand /\ NonDecreasing(expansions[ExpandDate])) =>
        /\ \A k \in MappedKeys(pre.ti, ExpandDate) :
              k.map_index >= 0 => (k \in DOMAIN ti /\ ti[k] = pre.ti[k])
        /\ \A k \in CreatedTIs :
              /\ k \in MappedKeys(ti, ExpandDate)
              /\ \A i \in MappedIndexes(pre.ti, ExpandDate) : i < k.map_index
              /\ k.map_index <= ExpandLength - 1
        /\ (Earlier /= <<>> /\ Earlier[Len(Earlier)] = ExpandLength) =>
              (ti = pre.ti /\ dag_run = pre.dag_run
                 /\ ti_history = pre.ti_history)

\* 2 grown to 3: index 2 was added, indexes 0 and 1 kept their running state
C8_Witness ==
    /\ IsExpand
    /\ expansions[ExpandDate] = <<2, 3>>
    /\ CreatedTIs = {MappedKey(ExpandDate, 2)}
    /\ \A i \in {0, 1} :
          /\ pre.ti[MappedKey(ExpandDate, i)].state = "running"
          /\ ti[MappedKey(ExpandDate, i)].state = "running"

(***************************************************************************)
(* C9: with length 0 and an unfinished placeholder, expand_mapped_task     *)
(* returns the empty sequence, leaves the placeholder at map index -1 in   *)
(* state skipped and creates no task instance.                             *)
(***************************************************************************)
C9_ZeroLengthSkipsPlaceholder ==
    (last.op = "expand_mapped_task" /\ last.a.task_map_info_length = {0}
        /\ HadUnmapped) =>
        LET placeholder == MappedKey(ExpandDate, PlaceholderIndex) IN
        /\ ~last.raised
        /\ last.ret = <<>>
        /\ DOMAIN ti = DOMAIN pre.ti
        /\ ti[placeholder].state = "skipped"
        /\ \A k \in DOMAIN ti \ {placeholder} : ti[k] = pre.ti[k]

\* a queued placeholder was skipped by a zero-length expansion
C9_Witness ==
    /\ last.op = "expand_mapped_task"
    /\ last.a.task_map_info_length = {0}
    /\ HadUnmapped
    /\ pre.ti[MappedKey(ExpandDate, PlaceholderIndex)].state = "queued"
    /\ ti[MappedKey(ExpandDate, PlaceholderIndex)].state = "skipped"

(***************************************************************************)
(* C10 as stated: every task instance newly created by expand_mapped_task  *)
(* has null state, whatever the state of the placeholder.                  *)
(***************************************************************************)
NewlyCreated ==
    CreatedTIs \ (IF HadUnmapped THEN {MappedKey(ExpandDate, 0)} ELSE {})

C10_NewRowsAreNull ==
    IsExpand => \A k \in NewlyCreated : ti[k].state = None

(***************************************************************************)
(* C10 amended: every task instance newly created by expand_mapped_task    *)
(* has the state of the unfinished placeholder it is expanded from (null   *)
(* for a null placeholder, scheduled for a scheduled one, ...), and null   *)
(* state when there is no unfinished placeholder.                          *)
(***************************************************************************)
C10_NewRowsTakePlaceholderState ==
    IsExpand =>
        \A k \in NewlyCreated :
            ti[k] = TaskInstance(
                        IF HadUnmapped
                        THEN pre.ti[MappedKey(ExpandDate, PlaceholderIndex)].state
                        ELSE None)

\* rows created from a scheduled placeholder are scheduled
C10_Witness ==
    /\ IsExpand
    /\ HadUnmapped
    /\ pre.ti[MappedKey(ExpandDate, PlaceholderIndex)].state = "scheduled"
    /\ NewlyCreated /= {}
    /\ \A k \in NewlyCreated : ti[k].state = "scheduled"

(***************************************************************************)
(* C11 as stated: expand_mapped_task with a negative recorded length fails *)
(* with an error and changes no task instance: the placeholder is not      *)
(* skipped, no row is created and no row is marked removed.                *)
(***************************************************************************)
C11_NegativeLengthFails ==
    (last.op = "expand_mapped_task"
        /\ last.a.task_map_info_length /= {}
        /\ Max(last.a.task_map_info_length) < 0) =>
        (last.raised /\ ti = pre.ti)

(***************************************************************************)
(* C12: when no TaskMap row exists for the upstream task instance,         *)
(* expand_mapped_task raises and creates, re-keys, skips and removes no    *)
(* task instance: the store is as it was, and the missing length is not    *)
(* treated as zero (an unfinished placeholder is not skipped).             *)
(***************************************************************************)
C12_MissingTaskMapRaises ==
    (last.op = "expand_mapped_task" /\ last.a.task_map_info_length = {}) =>
        /\ last.raised
        /\ last.ret = <<>>
        /\ ti = pre.ti
        /\ ti_history = pre.ti_history
        /\ dag_run = pre.dag_run

\* the call without a TaskMap row met an unfinished placeholder and left it
C12_Witness ==
    /\ last.op = "expand_mapped_task"
    /\ last.a.task_map_info_length = {}
    /\ last.raised
    /\ HadUnmapped
    /\ pre.ti[MappedKey(ExpandDate, PlaceholderIndex)].state = "scheduled"
    /\ ti[MappedKey(ExpandDate, PlaceholderIndex)].state = "scheduled"

(***************************************************************************)
(* C13 as stated: the mapped task has only its placeholder at map index    *)
(* -1, the placeholder has finished and a length of 3 is recorded; the     *)
(* expansion re-keys the placeholder to map index 0 with its state         *)
(* unchanged, creates map indexes 1 and 2 with null state, returns         *)
(* [ti(0), ti(1), ti(2)] and leaves no row at map index -1.                *)
(***************************************************************************)
C13_FinishedPlaceholderIsRekeyed ==
    LET placeholder == MappedKey(ExpandDate, PlaceholderIndex) IN
    (/\ last.op = "expand_mapped_task"
     /\ last.a.task_map_info_length = {3}
     /\ MappedIndexes(pre.ti, ExpandDate) = {PlaceholderIndex}
     /\ pre.ti[placeholder].state \in State_finished) =>
        /\ ~last.raised
        /\ placeholder \notin DOMAIN ti
        /\ MappedIndexes(ti, ExpandDate) = {0, 1, 2}
        /\ ti[MappedKey(ExpandDate, 0)] = pre.ti[placeholder]
        /\ ti[MappedKey(ExpandDate, 1)].state = None
        /\ ti[MappedKey(ExpandDate, 2)].state = None
        /\ last.ret = [i \in 1..3 |-> MappedKey(ExpandDate, i - 1)]

(***************************************************************************)
(* C14: a second call of _create_dagruns with the same DAG and the same    *)
(* list of intervals creates nothing: the store after it holds the same    *)
(* rows as after the first call and the same runs are returned, one run    *)
(* per distinct requested data interval, at pairwise distinct logical      *)
(* timestamps; the runs and task instances that existed before the first   *)
(* call are unmodified.                                                    *)
(***************************************************************************)
C14_SecondCallCreatesNothing ==
    IsCall("_create_dagruns") =>
        \E again \in {_create_dagruns(Store, last.a.dag_id, last.a.infos,
                                      "running", "backfill")} :
            /\ ~again.raised
            /\ again.st.dag_run = dag_run
            /\ again.st.ti = ti
            /\ again.dag_runs = last.ret
            /\ \A iv \in Range(last.a.infos) :
                  Cardinality({r \in last.ret : dag_run[r].data_interval = iv}) = 1
            /\ Cardinality(last.ret) = Cardinality(Range(last.a.infos))
            /\ \A r1, r2 \in last.ret :
                  r1.execution_date = r2.execution_date => r1 = r2
            /\ \A r \in DOMAIN pre.dag_run :
                  r \in DOMAIN dag_run /\ dag_run[r] = pre.dag_run[r]
            /\ \A k \in DOMAIN pre.ti : k \in DOMAIN ti /\ ti[k] = pre.ti[k]

\* a call that found one run and created another, for two intervals
C14_Witness ==
    /\ IsCall("_create_dagruns")
    /\ Cardinality(Range(last.a.infos)) = 2
    /\ CreatedRuns /= {}
    /\ last.ret \cap DOMAIN pre.dag_run /= {}
    /\ last.ret \cap CreatedRuns /= {}

(***************************************************************************)
(* C15 as stated: when creating a run hits the uniqueness constraint on    *)
(* (dag_id, logical timestamp), _create_dagruns returns the run that is    *)
(* there and no error reaches the caller: a call never raises and returns  *)
(* a run at every requested logical timestamp.                             *)
(***************************************************************************)
C15_UniquenessViolationIsRecovered ==
    last.op = "_create_dagruns" =>
        /\ ~last.raised
        /\ \A iv \in Range(last.a.infos) :
              RunKey(last.a.dag_id, logical_date(iv)) \in last.ret

(***************************************************************************)
(* C16: from the moment a commit-mode set_state has read its candidate     *)
(* rows until it writes them, no other session changes a candidate row:    *)
(* each is there as it was read.  No row is a locked candidate of two      *)
(* sessions at once, so overlapping calls write one after the other; the   *)
(* write sets every candidate to the target state over the row it read     *)
(* (no update of another session is overwritten unseen) and changes no     *)
(* other row.                                                              *)
(***************************************************************************)
C16_CandidatesLockedUntilWritten ==
    /\ \A p \in Sessions :
          session[p].pc = "locked" =>
              \A k \in session[p].tis_altered :
                  k \in DOMAIN ti /\ ti[k] = session[p].read[k]
    /\ \A p, q \in Sessions :
          (p /= q /\ session[p].pc = "locked" /\ session[q].pc = "locked")
              => session[p].tis_altered \cap session[q].tis_altered = {}
    /\ last.op = "commit_altered" =>
          LET s == session[last.a.p] IN
          /\ \A k \in s.tis_altered :
                /\ pre.ti[k] = s.read[k]
                /\ ti[k] = Alter(s.read[k], s.a.state)
          /\ \A k \in DOMAIN pre.ti \ s.tis_altered :
                k \in DOMAIN ti /\ ti[k] = pre.ti[k]
          /\ DOMAIN ti = DOMAIN pre.ti

\* a session holds a candidate that the other session wrote before it read,
\* while the other target state is still to be written over it
C16_Witness ==
    \E p, q \in Sessions :
        /\ session[p].pc = "locked"
        /\ session[q].pc = "done"
        /\ session[p].a.state /= session[q].a.state
        /\ \E k \in session[p].tis_altered \cap session[q].tis_altered :
              /\ session[p].read[k].state = session[q].a.state
              /\ ti[k].state = session[q].a.state

(***************************************************************************)
(* C17: set_state with a non-empty task list and an anchor that is not     *)
(* timezone-aware, tasks of several DAGs or tasks with no DAG raises, and  *)
(* so does set_dag_run_state_to_success with commit=True, a DAG and such   *)
(* an anchor; whenever set_state or a wrapper raises, no DagRun and no        *)
(* TaskInstance has been modified.  set_state with an empty task list      *)
(* does not raise, returns the empty list and changes nothing, even with   *)
(* an invalid anchor.                                                      *)
(***************************************************************************)
Invalid(a) == ~a.localized \/ a.task_dags /= "one"

IsMarkCall ==
    last.op \in {"set_state", "set_dag_run_state_to_success",
                 "set_dag_run_state_to_failed", "set_dag_run_state_to_running"}

C18_SuccessMarksRunAndInstances ==
    (/\ last.op = "set_dag_run_state_to_success"
     /\ RunKey(dag_id, Max(last.a.execution_date)) \in DOMAIN pre.dag_run) =>
        LET date == Max(last.a.execution_date)
            run == RunKey(dag_id, date)
        IN  /\ ~last.raised
            /\ last.a.commit =>
                  /\ dag_run[run].state = "success"
                  /\ dag_run[run].end_date = UtcNow
                  /\ \A k \in Primary(DOMAIN ti) :
                        (k.execution_date = date /\ k.task_id \in tasks_of(dag_id))
                            => ti[k].state = "success"
            /\ ~last.a.commit =>
                  /\ dag_run[run] = pre.dag_run[run]
                  /\ \E c \in {set_dag_run_state_to_success(
                                    dag, pre, [last.a EXCEPT !.commit = TRUE])} :
                        last.ret = {k \in DOMAIN c.ti :
                                      \/ k \notin DOMAIN pre.ti
                                      \/ c.ti[k].state /= pre.ti[k].state}

RangeStart(a) ==
    IF ~a.past THEN a.execution_date
    ELSE IF dag.default_args_start_date /= {}
    THEN Max(dag.default_args_start_date)
    ELSE IF dag.start_date /= {} THEN Max(dag.start_date)
    ELSE a.execution_date

RangeEnd(a) ==
    IF a.future
    THEN Max({r.execution_date : r \in {x \in DOMAIN pre.dag_run : x.dag_id = dag_id}})
    ELSE a.execution_date

C20_DateRangeStartsAndEnds ==
    (last.op = "_get_execution_dates" /\ ~last.raised) =>
        \E S \in {RangeStart(last.a)}, E \in {RangeEnd(last.a)} :
            /\ \A d \in last.ret : S <= d
            /\ dag.timetable = "periodic" =>
                  last.ret = {d \in AllDates : S <= d /\ d <= E}
            /\ dag.timetable = "never" =>
                  last.ret = {d \in S..E : RunKey(dag_id, d) \in DOMAIN pre.dag_run}
            /\ dag.timetable = "once" => last.ret = {S}
            /\ (~last.a.past /\ ~last.a.future) =>
                  last.ret \subseteq {last.a.execution_date}

\* past and future from the middle of a periodic DAG whose default_args
\* start before its own start_date: the range runs from the former to the
\* latest run
C20_Witness ==
    /\ last.op = "_get_execution_dates"
    /\ ~last.raised
    /\ last.a.past /\ last.a.future
    /\ last.a.execution_date = 1
    /\ dag.timetable = "periodic"
    /\ dag.default_args_start_date = {0}
    /\ dag.start_date = {1}
    /\ last.ret = {0, 1, 2}

(***************************************************************************)
(* C21 as stated: when the DAG has no latest execution timestamp, a        *)
(* set_state call that requests future raises and changes nothing, and a   *)
(* call that does not request future is not failed by the absence.         *)
(***************************************************************************)
NoLatestExecutionDate == get_latest_execution_date(pre.dag_run) = {}

C21_OnlyFutureNeedsLatest ==
    (last.op = "set_state" /\ NoLatestExecutionDate) =>
        /\ last.a.future =>
              (last.raised /\ ti = pre.ti /\ dag_run = pre.dag_run)
        /\ ~last.a.future => ~last.raised

(***************************************************************************)
(* Vocabulary of the sensor's properties: where the loop stands right      *)
(* after a poke.                                                           *)
(***************************************************************************)
Ended(e) == sensor.pc = "done" /\ sensor.exception = e
Skipped == Ended("AirflowSkipException")
TimedOut == Ended("AirflowSensorTimeout")
Succeeded == Ended(None)
Sleeps == sensor.mode = "poke" /\ sensor.pc = "poking" /\ sensor.wait /= {}
Reschedules ==
    /\ sensor.mode = "reschedule"
    /\ sensor.pc = "idle"
    /\ sensor.exception = "AirflowRescheduleException"
    /\ sensor.wait /= {}
PokeNotSatisfied ==
    \/ sensor.poke_return = "falsy"
    \/ sensor.poke_return = "Exception" /\ sensor.fail_policy = "ignore_error"
DeadlinePassed == sensor.elapsed > sensor.timeout

(***************************************************************************)
(* C22: after a poke that raised a generic exception, the sensor has ended *)
(* with that exception under none and under skip_on_timeout, and has ended *)
(* skipped under skip_on_any_error.  Under ignore_error the exception does *)
(* not come out: past the deadline the sensor has ended in a sensor        *)
(* timeout, and otherwise it sleeps or reschedules for the next poke (or   *)
(* fails on the store's timestamp limit).                                  *)
(***************************************************************************)
C22_GenericExceptionMatrix ==
    sensor.poke_return = "Exception" =>
        /\ sensor.fail_policy \in {"none", "skip_on_timeout"} => Ended("Exception")
        /\ sensor.fail_policy = "skip_on_any_error" => Skipped
        /\ sensor.fail_policy = "ignore_error" =>
              /\ sensor.exception /= "Exception"
              /\ DeadlinePassed => TimedOut
              /\ ~DeadlinePassed => (Sleeps \/ Reschedules \/ TimedOut)
              /\ (~DeadlinePassed /\ TimedOut) =>
                    (sensor.mode = "reschedule" /\ sensor.mysql)

\* under ignore_error a second poke raised as the first did, past the deadline
C22_Witness ==
    /\ sensor.fail_policy = "ignore_error"
    /\ sensor.mode = "poke"
    /\ sensor.poke_return = "Exception"
    /\ sensor.pokes >= 2
    /\ DeadlinePassed
    /\ TimedOut

C24_TimeoutEndsTheLoop ==
    /\ (PokeNotSatisfied /\ DeadlinePassed) =>
          /\ sensor.wait = {}
          /\ IF sensor.fail_policy = "skip_on_timeout" THEN Skipped ELSE TimedOut
    /\ Succeeded => sensor.poke_return = "truthy"

\* skip_on_any_error does not skip on the timeout
C24_Witness ==
    /\ sensor.fail_policy = "skip_on_any_error"
    /\ sensor.poke_return = "falsy"
    /\ sensor.pokes >= 2
    /\ DeadlinePassed
    /\ TimedOut

(***************************************************************************)
(* C25 as stated: with exponential backoff, two computations of the next   *)
(* interval that agree on started_at and on the poke count (dag_id,        *)
(* task_id and the configuration are those of the one sensor) return the   *)
(* same interval.                                                          *)
(***************************************************************************)
C25_IntervalIsPureInTheFourValues ==
    sensor.exponential_backoff =>
        \A c1 \in sensor.computations, c2 \in sensor.computations :
            (c1.started_at = c2.started_at
                /\ c1.poke_count_used = c2.poke_count_used)
            => c1.interval = c2.interval

(***************************************************************************)
(* C25 amended: with exponential backoff, two computations that agree on   *)
(* started_at and on the poke count agree on the backoff before the caps,  *)
(* and the interval returned is the least of that backoff, the timeout     *)
(* minus the whole seconds elapsed, and max_wait when it is set and not    *)
(* zero: it depends on the elapsed run duration as well.                   *)
(***************************************************************************)
C25_BackoffIsPureIntervalIsCapped ==
    sensor.exponential_backoff =>
        /\ \A c1 \in sensor.computations, c2 \in sensor.computations :
              (c1.started_at = c2.started_at
                  /\ c1.poke_count_used = c2.poke_count_used)
              => c1.delay_backoff_in_seconds = c2.delay_backoff_in_seconds
        /\ \A c \in sensor.computations :
              \E cap \in {Min(sensor.timeout - Seconds(c.elapsed \div TicksPerSecond),
                              Seconds(c.delay_backoff_in_seconds))} :
                  c.interval =
                      IF sensor.max_wait \in {{}, {0}} THEN cap
                      ELSE Min(cap, Max(sensor.max_wait))

\* a rescheduled sensor computes the interval twice for the same poke count
\* at different run durations, and the two intervals differ
C25_Witness ==
    /\ sensor.exponential_backoff
    /\ sensor.mode = "reschedule"
    /\ \E c1 \in sensor.computations, c2 \in sensor.computations :
          /\ c1.started_at = c2.started_at
          /\ c1.poke_count_used = c2.poke_count_used
          /\ c1.elapsed /= c2.elapsed
          /\ c1.delay_backoff_in_seconds = c2.delay_backoff_in_seconds
          /\ c1.interval /= c2.interval

(***************************************************************************)
(* C26 as stated: when max_wait is supplied, zero included, no sleep and   *)
(* no reschedule delay is longer than max_wait, with or without            *)
(* exponential backoff.                                                    *)
(***************************************************************************)
C26_NoWaitLongerThanMaxWait ==
    (sensor.max_wait /= {} /\ sensor.wait /= {}) =>
        Max(sensor.wait) <= Max(sensor.max_wait)

(***************************************************************************)
(* C27 as stated: with exponential backoff, the backoff computed for poke  *)
(* count k is min_backoff + (hash mod min_backoff), where min_backoff is   *)
(* max(floor(poke_interval * 2^(k-2)), 1), so it lies between min_backoff  *)
(* and 2 * min_backoff - 1; and the interval returned does not exceed the  *)
(* timeout minus the elapsed run duration.                                 *)
(***************************************************************************)
FloorOfBackoff(k) ==
    IF k >= 2 THEN (sensor.poke_interval * Pow2(k - 2)) \div TicksPerSecond
    ELSE sensor.poke_interval \div (2 * TicksPerSecond)

C27_UncappedRange ==
    sensor.exponential_backoff =>
        \A c \in sensor.computed :
            \E mb \in {Max({FloorOfBackoff(c.poke_count_used), 1})} :
                /\ c.delay_backoff_in_seconds =
                      mb + (sensor.sha1[<<c.started_at, c.poke_count_used>>] % mb)
                /\ mb <= c.delay_backoff_in_seconds
                /\ c.delay_backoff_in_seconds <= 2 * mb - 1

C27_BackoffWithinRangeAndDeadline ==
    /\ C27_UncappedRange
    /\ sensor.exponential_backoff =>
          \A c \in sensor.computed : c.interval <= sensor.timeout - c.elapsed

SameHistoryKey(h1, h2) ==
    /\ h1.dag_id = h2.dag_id
    /\ h1.task_id = h2.task_id
    /\ h1.execution_date = h2.execution_date
    /\ h1.map_index = h2.map_index
    /\ h1.try_number = h2.try_number

OneRowPerKey ==
    \A h1 \in ti_history, h2 \in ti_history : SameHistoryKey(h1, h2) => h1 = h2

C29_HistoryRowsNeverChange ==
    /\ OneRowPerKey
    /\ pre.ti_history \subseteq ti_history

(***************************************************************************)
(* C29 amended: no two history rows share the key; record_ti only appends, *)
(* at most one row, and when the key of the task instance's try is already *)
(* recorded it changes neither the history nor the task instances, also    *)
(* when two calls race (the later flush fails); set_state changes no       *)
(* history row; expand_mapped_task changes only the map index of the rows  *)
(* of a placeholder it re-keys, from -1 to 0.                              *)
(***************************************************************************)
C29_OneRowPerKeyRecordTiAppends ==
    /\ OneRowPerKey
    /\ last.op = "record_ti" =>
          /\ pre.ti_history \subseteq ti_history
          /\ Cardinality(ti_history \ pre.ti_history) <= 1
          /\ (\/ last.a.key \notin DOMAIN pre.ti
              \/ HistoryOf(pre.ti_history, last.a.key,
                           pre.ti[last.a.key].try_number) /= {})
                => (ti = pre.ti /\ ti_history = pre.ti_history)
    /\ last.op \in {"set_state", "record_ti_query"} => ti_history = pre.ti_history
    /\ last.op = "expand_mapped_task" =>
          /\ Cardinality(ti_history) = Cardinality(pre.ti_history)
          /\ \A h \in pre.ti_history :
                \/ h \in ti_history
                \/ /\ h.task_id = MappedTask
                   /\ h.map_index = PlaceholderIndex
                   /\ [h EXCEPT !.map_index = 0] \in ti_history

\* two calls queried before either flushed: the second flush has failed and
\* the key has its one row
C29_Witness ==
    /\ last.op = "record_ti"
    /\ last.raised
    /\ last.a.key \in DOMAIN ti
    /\ Cardinality(HistoryOf(ti_history, last.a.key,
                             ti[last.a.key].try_number)) = 1

(***************************************************************************)
(* C30: when expand_mapped_task meets an unfinished placeholder (map index *)
(* -1, state null or unfinished) and the recorded length N is at least 1,  *)
(* it re-keys that row to map index 0 keeping its state and creates rows   *)
(* for exactly the indexes 1..N-1; afterwards the run holds no task        *)
(* instance of the task at map index -1 and one at each index 0..N-1 (the  *)
(* store holds one row per (dag_id, task_id, run_id, map_index)).          *)
(***************************************************************************)
C30_UnfinishedPlaceholderIsRekeyed ==
    (/\ last.op = "expand_mapped_task"
     /\ last.a.task_map_info_length /= {}
     /\ HadUnmapped
     /\ ExpandLength >= 1) =>
        /\ ~last.raised
        /\ MappedKey(ExpandDate, PlaceholderIndex) \notin DOMAIN ti
        /\ \A i \in 0..(ExpandLength - 1) : MappedKey(ExpandDate, i) \in DOMAIN ti
        /\ ti[MappedKey(ExpandDate, 0)] =
              pre.ti[MappedKey(ExpandDate, PlaceholderIndex)]
        /\ CreatedTIs = {MappedKey(ExpandDate, i) : i \in 0..(ExpandLength - 1)}
        /\ Cardinality(DOMAIN ti) = Cardinality(DOMAIN pre.ti) + ExpandLength - 1

(***************************************************************************)
(* C31: after an expand_mapped_task call that used a length N of at least  *)
(* 1, whatever calls came before it, the map-index population is           *)
(* contiguous: every index 0..N-1 has a task instance that is not in state *)
(* removed, and every task instance with map index at or above N is in     *)
(* state removed; also when the length shrank and later grew again.        *)
(***************************************************************************)
C31_PopulationIsContiguous ==
    (/\ IsExpand
     /\ last.a.task_map_info_length /= {}
     /\ ExpandLength >= 1) =>
        /\ \A i \in 0..(ExpandLength - 1) :
              /\ MappedKey(ExpandDate, i) \in DOMAIN ti
              /\ ti[MappedKey(ExpandDate, i)].state /= "removed"
        /\ \A i \in MappedIndexes(ti, ExpandDate) :
              i >= ExpandLength => ti[MappedKey(ExpandDate, i)].state = "removed"

(***************************************************************************)
(* C31 amended: after an expand_mapped_task call that used a length N of   *)
(* at least 1, every index 0..N-1 has a task instance, which is in state   *)
(* removed exactly if it was in state removed before the call (an index    *)
(* removed when the length shrank stays removed when the length grows      *)
(* again), and every task instance with map index at or above N is in      *)
(* state removed.                                                          *)
(***************************************************************************)
C31_PopulationIsContiguousRemovedStays ==
    (/\ IsExpand
     /\ last.a.task_map_info_length /= {}
     /\ ExpandLength >= 1) =>
        /\ \A i \in 0..(ExpandLength - 1) :
              /\ MappedKey(ExpandDate, i) \in DOMAIN ti
              /\ (ti[MappedKey(ExpandDate, i)].state = "removed") <=>
                    /\ MappedKey(ExpandDate, i) \in DOMAIN pre.ti
                    /\ pre.ti[MappedKey(ExpandDate, i)].state = "removed"
        /\ \A i \in MappedIndexes(ti, ExpandDate) :
              i >= ExpandLength => ti[MappedKey(ExpandDate, i)].state = "removed"

\* the length went 2, 1, 2: index 1 is there, removed, and index 0 is not
C31_Witness ==
    /\ IsExpand
    /\ expansions[ExpandDate] = <<2, 1, 2>>
    /\ ti[MappedKey(ExpandDate, 1)].state = "removed"
    /\ ti[MappedKey(ExpandDate, 0)].state /= "removed"

(***************************************************************************)
(* C32: expand_mapped_task is all-or-nothing.  While the call runs, and    *)
(* when it raises or the process stops between the re-keying of the        *)
(* placeholder, the creation of the rows and the marking of the excess     *)
(* rows, the store shows none of these changes; once the caller has        *)
(* committed it shows all of them.  So an expansion never finds a gap in   *)
(* the indexes and never creates a row for an index that already exists.   *)
(***************************************************************************)
NoGap(tis, date) ==
    \A i \in MappedIndexes(tis, date) :
        \A j \in 0..i : j \in MappedIndexes(tis, date)

C32_ExpansionIsAllOrNothing ==
    /\ session[Scheduler].pc \in {"expanding", "flushed"} =>
          View(Store) = session[Scheduler].a.begin
    /\ last.op = "expand_crash" =>
          (View(Store) = View(pre) /\ View(Store) = last.a.begin)
    /\ (last.op = "expand_mapped_task" /\ last.raised) => View(Store) = View(pre)
    /\ IsExpand =>
          \E r \in {expand_mapped_task(pre, last.a.date,
                                        last.a.task_map_info_length)} :
              /\ ~r.raised
              /\ ti = r.ti
              /\ ti_history = r.ti_history
    /\ \A d \in Dates : NoGap(ti, d)
    /\ last.op = "expand_open" =>
          last.a.date \in Dates /\
          session[Scheduler].a.indexes_to_map \cap MappedIndexes(pre.ti, last.a.date) = {}

\* the process stopped when index 1 of 3 was merged and index 2 was not
C32_Witness ==
    /\ last.op = "expand_crash"
    /\ last.a.task_map_info_length = {3}
    /\ last.a.indexes_to_map = {2}
    /\ MappedIndexes(ti, last.a.date) = {PlaceholderIndex}

(***************************************************************************)
(* C33: for every sub-workflow container task in the closure that has a    *)
(* nested graph, set_state leaves a nested DagRun at each confirmed        *)
(* interval (a missing one is created with the backfill run type, in state *)
(* running), in commit mode every such nested run has the target state,    *)
(* and every task instance of the nested DAG at a confirmed date whose     *)
(* state differs from the target is among the candidates returned,         *)
(* whatever its task id.                                                   *)
(***************************************************************************)
\* the intervals set_state confirms on the store it is called on
ConfirmedIntervals(a) ==
    Range(_verify_dag_run_integrity(
              pre, _get_execution_dates(dag, pre.dag_run, a.execution_date,
                                        a.future, a.past).dates).confirmed_infos)

\* the nested DAGs of the container tasks in the closure of the last call
NestedDagsOfClosure ==
    {subdag(dag_id, t) :
        t \in Closure(last.a.tasks, last.a.downstream, last.a.upstream)}
    \ {None}

C33_NestedRunsFollowTheTarget ==
    IsCall("set_state") =>
        \A sub \in NestedDagsOfClosure :
            /\ \A info \in ConfirmedIntervals(last.a) :
                  /\ RunKey(sub, logical_date(info)) \in DOMAIN dag_run
                  /\ RunKey(sub, logical_date(info)) \notin DOMAIN pre.dag_run =>
                        /\ dag_run[RunKey(sub, logical_date(info))].run_type = "backfill"
                        /\ dag_run[RunKey(sub, logical_date(info))].data_interval = info
                        /\ ~last.a.commit =>
                              dag_run[RunKey(sub, logical_date(info))].state = "running"
                  /\ last.a.commit =>
                        dag_run[RunKey(sub, logical_date(info))].state = last.a.state
            /\ \A k \in DOMAIN ti :
                  (/\ k.dag_id = sub
                   /\ k.execution_date \in ConfirmedDates(last.a)
                   /\ \/ k \notin DOMAIN pre.ti
                      \/ StateDiffers(pre.ti[k], last.a.state))
                     => k \in last.ret

\* a commit with the container in the closure created the nested run, left
\* it in the target state and returned the nested task instance
C33_Witness ==
    /\ IsCall("set_state")
    /\ last.a.commit
    /\ last.a.state = "success"
    /\ last.a.tasks = {"B"}
    /\ \E r \in CreatedRuns :
          /\ r.dag_id \in NestedDagsOfClosure
          /\ dag_run[r].state = "success"
          /\ dag_run[r].run_type = "backfill"
          /\ TIKey(r.dag_id, "X", r.execution_date, PlaceholderIndex) \in last.ret

(***************************************************************************)
(* C34: in every reachable state the state of every DagRun, nested         *)
(* sub-workflow runs included, is one of queued, running, success and      *)
(* failed; also after a commit-mode set_state whose target is a state of   *)
(* task instances only, such as skipped, up_for_retry or null.             *)
(***************************************************************************)
C34_RunStatesAreRunStates ==
    \A r \in DOMAIN dag_run :
        dag_run[r].state \in {"queued", "running", "success", "failed"}

(***************************************************************************)
(* C35: set_state never creates a DagRun of the primary DAG: a date of the *)
(* computed range that has no run is skipped and contributes no task       *)
(* instance, neither returned nor created, while the missing runs of the   *)
(* nested sub-workflow DAGs are created.                                   *)
(***************************************************************************)
ComputedDates(a) ==
    _get_execution_dates(dag, pre.dag_run, a.execution_date, a.future, a.past).dates

C35_NoPrimaryRunIsCreated ==
    IsCall("set_state") =>
        /\ Primary(CreatedRuns) = {}
        /\ \A d \in ComputedDates(last.a) :
              RunKey(dag_id, d) \notin DOMAIN pre.dag_run =>
                  \A k \in last.ret \cup CreatedTIs : k.execution_date /= d
        /\ \A sub \in NestedDagsOfClosure :
              \A info \in ConfirmedIntervals(last.a) :
                  RunKey(sub, logical_date(info)) \in DOMAIN dag_run

(***************************************************************************)
(* C36: for every existing DagRun of the primary DAG whose logical         *)
(* timestamp is in the computed date range, every task instance of that    *)
(* run whose task is in the closure and whose state is null or differs     *)
(* from the target is in the set returned by set_state; also when the      *)
(* run's data interval does not start at its logical timestamp.            *)
(***************************************************************************)
C36_CandidatesOfEveryRunInRange ==
    IsCall("set_state") =>
        \A k \in Primary(DOMAIN ti) :
            (/\ k.execution_date \in ComputedDates(last.a)
             /\ RunKey(dag_id, k.execution_date) \in DOMAIN pre.dag_run
             /\ k.task_id \in Closure(last.a.tasks, last.a.downstream,
                                      last.a.upstream)
             /\ \/ k \notin DOMAIN pre.ti
                \/ StateDiffers(pre.ti[k], last.a.state))
               => k \in last.ret

(***************************************************************************)
(* C37: in reschedule mode with exponential backoff, the poke count the    *)
(* next interval is computed for is the smallest k >= 1 such that the sum  *)
(* of the first k jittered backoff intervals is strictly greater than the  *)
(* time elapsed since the original start; it is derived from the elapsed   *)
(* time and not from the loop's poke count, so it does not decrease as the *)
(* elapsed time grows and is the same whenever the elapsed time is.        *)
(***************************************************************************)
RECURSIVE CumulativeBackoff(_, _, _)
CumulativeBackoff(s, started_at, k) ==
    IF k <= 0 THEN 0
    ELSE CumulativeBackoff(s, started_at, k - 1)
            + Seconds(delay_backoff_in_seconds(s, started_at, k))

C37_PokeCountIsDerivedFromElapsed ==
    (sensor.mode = "reschedule" /\ sensor.exponential_backoff) =>
        /\ \A c \in sensor.computations :
              /\ c.poke_count_used >= 1
              /\ CumulativeBackoff(sensor, c.started_at, c.poke_count_used)
                    > c.elapsed
              /\ CumulativeBackoff(sensor, c.started_at, c.poke_count_used - 1)
                    <= c.elapsed
        /\ \A c1 \in sensor.computations, c2 \in sensor.computations :
              (c1.started_at = c2.started_at /\ c1.elapsed <= c2.elapsed)
                 => c1.poke_count_used <= c2.poke_count_used

\* three executions of a rescheduled sensor, each with the loop's poke count
\* at 1, computed their intervals for the poke counts 1, 2 and 3
C37_Witness ==
    /\ sensor.mode = "reschedule"
    /\ sensor.exponential_backoff
    /\ \A k \in 1..3 :
          \E c \in sensor.computations :
              c.poke_count = 1 /\ c.poke_count_used = k

(***************************************************************************)
(* C38: in reschedule mode each invocation of the loop calls the criteria  *)
(* check exactly once and then ends in exactly one of success, skip,       *)
(* failure and a reschedule signal that carries now + the next interval;   *)
(* it never sleeps and never pokes a second time within one invocation.    *)
(* In blocking mode the loop never emits a reschedule signal and its poke  *)
(* counter goes up by one after each sleep.                                *)
(***************************************************************************)
C38_OnePokePerRescheduledInvocation ==
    /\ sensor.mode = "reschedule" =>
          /\ sensor.poke_count <= 1
          /\ sensor.pc = "poking" =>
                (sensor.pokes = sensor.executions - 1 /\ sensor.wait = {})
          /\ sensor.pc \in {"idle", "done"} => sensor.pokes = sensor.executions
          /\ (sensor.pc = "idle" /\ sensor.executions >= 1) =>
                /\ Reschedules
                /\ Len(sensor.task_reschedule) = sensor.executions
                /\ sensor.task_reschedule[Len(sensor.task_reschedule)].reschedule_date
                      = sensor.now + Max(sensor.wait)
                /\ sensor.computed /= {}
                /\ \A c \in sensor.computed : c.interval = Max(sensor.wait)
          /\ sensor.pc = "done" =>
                /\ sensor.exception /= "AirflowRescheduleException"
                /\ Len(sensor.task_reschedule) = sensor.executions - 1
    /\ sensor.mode = "poke" =>
          /\ sensor.task_reschedule = <<>>
          /\ sensor.exception /= "AirflowRescheduleException"
          /\ sensor.executions <= 1
          /\ sensor.pc = "poking" => sensor.poke_count = sensor.pokes + 1
          /\ sensor.pc = "done" => sensor.poke_count = sensor.pokes
          /\ Sleeps => sensor.pokes >= 1

\* the third invocation of a rescheduled sensor poked once, as the two
\* before it did, and ended in a third reschedule signal
C38_Witness ==
    /\ sensor.mode = "reschedule"
    /\ sensor.executions = 3
    /\ sensor.pokes = 3
    /\ Reschedules
    /\ Len(sensor.task_reschedule) = 3

(***************************************************************************)
(* C40: no call of _get_next_poke_interval returns a negative interval: the *)
(* blocking sleep is never asked to sleep a negative time and no           *)
(* reschedule date is earlier than the time it was recorded at, also when  *)
(* time goes by between the timeout check and the computation.             *)
(***************************************************************************)
C40_IntervalIsNeverNegative ==
    /\ \A c \in sensor.computations : c.interval >= 0
    /\ \A w \in sensor.wait : w >= 0
    /\ (sensor.pc = "idle" /\ sensor.executions >= 1) =>
          sensor.task_reschedule[Len(sensor.task_reschedule)].reschedule_date
              >= sensor.now

(***************************************************************************)
(* C39: a blocking sensor with a finite timeout, on a clock that advances  *)
(* and with pokes that return or raise, does not poke forever: a loop that *)
(* is poking eventually ends, in success, in a skip or in a failure; the   *)
(* loop is not held up by the bound on its pokes.  This covers             *)
(* ignore_error with pokes that always raise and poke_interval 0.          *)
(***************************************************************************)
C39_BlockingLoopEnds ==
    /\ [](sensor.pc = "poking" => sensor.poke_count <= MaxPokeCount)
    /\ (sensor.pc = "poking") ~> (sensor.pc = "done")

\* under ignore_error with poke_interval 0, three pokes have raised a
\* generic exception and the loop has ended in a sensor timeout
C39_Witness ==
    /\ sensor.mode = "poke"
    /\ sensor.fail_policy = "ignore_error"
    /\ sensor.poke_interval = 0
    /\ ~sensor.exponential_backoff
    /\ sensor.poke_return = "Exception"
    /\ sensor.pokes >= 3
    /\ Cardinality(sensor.computations) >= 1
    /\ TimedOut

====
